---- MODULE Spec2Model ----
(***************************************************************************)
(* Model of the Encrypted Profile Store (ProfileStorage, auth.js 296-1051) *)
(* A file is a record [env, doc]: env is the key of the envelope the       *)
(* content is wrapped in (NoKey for plain JSON) and doc the JSON value.    *)
(* A JS object is a function from the names of the fields it defines, so   *)
(* "field is undefined" is "name not in DOMAIN".                           *)
(***************************************************************************)
EXTENDS Integers, Sequences, FiniteSets, TLC

VARIABLES
    files,            \* profilesDir: file name -> content (<name>.json, user-profile.json)
    legacyTxt,        \* the legacy documents: names n with a file <n>.txt
    defaultUserData,  \* the module-level object DEFAULT_USER_DATA
    last,             \* the call that completed last: arguments and outcome
    sessions,         \* SessionManager.sessions: session id -> agent instance
    sessionCharacters,\* SessionManager.sessionCharacters: session id -> character name
    lastActivity,     \* SessionManager.lastActivity: session id -> time
    now,              \* Date.now(), in half hours
    agents,           \* the HybridChatbot instances in use, by identity
    agentCount,       \* how many HybridChatbot instances were constructed
    calls,            \* the getChatbot calls in flight, each at one of its awaits
    issued,           \* session id -> agents returned to callers while it was registered
    reaped,           \* the agent instances the idle sweep removed
    latestRequestIds, \* SessionManager.latestRequestIds: session id -> request id
    charactersWithStarters, \* SessionManager.charactersWithStarters: set of names
    reloading,        \* the reloadCharacterForAllSessions call in flight: its promises
    appPasswordHash,  \* process.env.APP_PASSWORD_HASH
    envFile,          \* the APP_PASSWORD_HASH line of the .env file
    reqSession        \* req.session of the browser: authenticated, encryptionKey

storeVars == <<files, legacyTxt, defaultUserData>>
authVars == <<appPasswordHash, envFile, reqSession>>
auxVars == <<latestRequestIds, charactersWithStarters, reloading, authVars>>
sessionVars == <<sessions, sessionCharacters, lastActivity, now, agents, agentCount, calls,
                 issued, reaped, auxVars>>
vars == <<files, legacyTxt, defaultUserData, last, sessions, sessionCharacters,
          lastActivity, now, agents, agentCount, calls, issued, reaped,
          latestRequestIds, charactersWithStarters, reloading, appPasswordHash,
          envFile, reqSession>>

-----------------------------------------------------------------------------
(* Bounds and input domains *)

MaxFavorites == 2

FavIds == {"f1"}    \* ids a caller supplies
GenIds == {"g1"}    \* ids addFavorite generates

PUBLIC_PROFILES == {"Echo", "Kairos"}
ProfileNames == {"Echo", "Nova", "Astra"}
UserFile == "user-profile"
FileNames == ProfileNames \cup {UserFile}

NoKey == "null"

\* bcrypt.hash / bcrypt.compare: a hash matches the password it was made from
\* and no other
bcryptHash(password) == [bcrypt |-> password]
bcryptCompare(password, hash) == hash = bcryptHash(password)

\* a request without a session cookie, or after req.session.destroy()
NoAuth == [authenticated |-> FALSE, encryptionKey |-> NoKey]

\* the password APP_PASSWORD_HASH was set up with
InitialPassword == "k1"
Null == "null"
Keys == {"k1", "k2"}
StoreKeys == {"k1", "k2", "k3"}

NoFile == [env |-> "ENOENT"]
EmptyObj == [x \in {} |-> TRUE]

Has(obj, f) == f \in DOMAIN obj
OptField(f, vals) == {EmptyObj} \cup {f :> v : v \in vals}

-----------------------------------------------------------------------------
(* Cipher adapter (utils/encryption.js is not part of the sources) *)

encrypt(content, key) == [env |-> key, doc |-> content.doc]
isEncrypted(content) == content.env # NoKey
canDecrypt(content, key) == content.env = key
decrypt(content, key) == [env |-> NoKey, doc |-> content.doc]

\* JSON.parse succeeds on plain JSON and throws on an envelope
isJSON(content) == content.env = NoKey
\* JSON.stringify(data, null, 2) of a JSON value
stringify(data) == [env |-> NoKey, doc |-> data]

-----------------------------------------------------------------------------
(* File primitives *)

shouldEncryptProfileAlways(profileName) == TRUE

shouldEncryptProfile(profileName) == profileName \notin PUBLIC_PROFILES

readFileContent(fs, f, encryptionKey) ==
    IF fs[f] = NoFile THEN [err |-> "ENOENT"]
    ELSE IF encryptionKey # NoKey /\ isEncrypted(fs[f])
         THEN IF canDecrypt(fs[f], encryptionKey)
              THEN [err |-> "none", content |-> decrypt(fs[f], encryptionKey)]
              ELSE [err |-> "decrypt"]
         ELSE [err |-> "none", content |-> fs[f]]

\* try { content = readFileContent(..); data = JSON.parse(content) } catch {}
readJSON(fs, f, encryptionKey) ==
    LET rd == readFileContent(fs, f, encryptionKey) IN
    IF rd.err = "none" /\ isJSON(rd.content)
    THEN [ok |-> TRUE, data |-> rd.content.doc]
    ELSE [ok |-> FALSE]

writeFileContent(fs, f, content, encryptionKey, shouldEncrypt) ==
    [fs EXCEPT ![f] = IF encryptionKey # NoKey /\ shouldEncrypt
                      THEN encrypt(content, encryptionKey)
                      ELSE content]

listProfiles(fs, txt) == {n \in ProfileNames : fs[n] # NoFile \/ n \in txt}

-----------------------------------------------------------------------------
(* Character documents *)

isCharacterV2(data) ==
    /\ Has(data, "version") /\ data.version = "2.0"
    /\ Has(data, "type") /\ data.type = "character"

\* x || d for a string field
OrStr(obj, f, d) == IF Has(obj, f) /\ obj[f] # "" THEN obj[f] ELSE d

\* parseInt(x) || d over the ages the callers send
parseIntOr(obj, f, d) ==
    IF ~Has(obj, f) THEN d
    ELSE CASE obj[f] = "30" -> 30
           [] OTHER         -> d

\* existingData?.character?.favorites, falling to []
existingFavorites(rd) ==
    IF rd.ok /\ Has(rd.data, "character") /\ Has(rd.data.character, "favorites")
    THEN rd.data.character.favorites
    ELSE <<>>

\* the legacy <name>.txt parsed into a flat object
legacyProfile(profileName) == [name |-> profileName]

\* getProfile that gives up when the JSON document cannot be used
getProfileNoFallback(fs, txt, profileName, encryptionKey) ==
    LET needsDecryption == shouldEncryptProfile(profileName)
        rd == readJSON(fs, profileName, IF needsDecryption THEN encryptionKey ELSE NoKey)
    IN  IF rd.ok /\ isCharacterV2(rd.data)
        THEN [ok |-> TRUE, data |-> rd.data]
        ELSE [ok |-> FALSE]

\* 493-540
getProfile(fs, txt, profileName, encryptionKey) ==
    LET needsDecryption == shouldEncryptProfile(profileName)
        rd == readJSON(fs, profileName, IF needsDecryption THEN encryptionKey ELSE NoKey)
    IN  IF rd.ok /\ isCharacterV2(rd.data)
        THEN [ok |-> TRUE, data |-> rd.data]
        ELSE IF profileName \in txt
             THEN [ok |-> TRUE, data |-> legacyProfile(profileName)]
             ELSE [ok |-> FALSE]

buildCharacter(profileData, rd) ==
    [version |-> "2.0",
     type |-> "character",
     character |->
        [gender |-> OrStr(profileData, "gender", "female"),
         age |-> parseIntOr(profileData, "age", 25),
         notifications |-> (IF Has(profileData, "notifications")
                            THEN profileData.notifications # FALSE ELSE TRUE),
         favorites |-> IF Has(profileData, "favorites")
                       THEN profileData.favorites
                       ELSE existingFavorites(rd)]]

saveProfile(fs, profileName, profileData, encryptionKey) ==
    LET needsDecryption == shouldEncryptProfile(profileName)
        rd == readJSON(fs, profileName, IF needsDecryption THEN encryptionKey ELSE NoKey)
        data == IF isCharacterV2(profileData) THEN profileData
                ELSE buildCharacter(profileData, rd)
    IN  writeFileContent(fs, profileName, stringify(data), encryptionKey,
                         shouldEncryptProfile(profileName))

favoritesOf(data) ==
    IF Has(data.character, "favorites") THEN data.character.favorites ELSE <<>>

Range(s) == {s[i] : i \in DOMAIN s}

addFavorite(fs, profileName, favorite, encryptionKey, freshId) ==
    LET needsEncryption == shouldEncryptProfile(profileName)
        rd == readJSON(fs, profileName, IF needsEncryption THEN encryptionKey ELSE NoKey)
    IN  IF rd.ok /\ isCharacterV2(rd.data)
        THEN LET id == OrStr(favorite, "id", freshId)
                 data == [rd.data EXCEPT !.character =
                             ("favorites" :> Append(favoritesOf(rd.data), id)) @@ @]
             IN  [ok |-> TRUE, id |-> id,
                  fs |-> writeFileContent(fs, profileName, stringify(data),
                                          encryptionKey, needsEncryption)]
        ELSE [ok |-> FALSE, fs |-> fs]

\* removeFavorite without the test of line 946: an id that is not in the
\* list is a silent no-op that writes the document back
removeFavoriteSilent(fs, profileName, favoriteId, encryptionKey) ==
    LET needsEncryption == shouldEncryptProfile(profileName)
        rd == readJSON(fs, profileName, IF needsEncryption THEN encryptionKey ELSE NoKey)
    IN  IF rd.ok /\ isCharacterV2(rd.data)
        THEN LET kept == SelectSeq(favoritesOf(rd.data), LAMBDA fav : fav # favoriteId)
                 data == [rd.data EXCEPT !.character = ("favorites" :> kept) @@ @]
             IN  [ok |-> TRUE, err |-> "none",
                  fs |-> writeFileContent(fs, profileName, stringify(data),
                                          encryptionKey, needsEncryption)]
        ELSE [ok |-> FALSE, err |-> IF rd.ok THEN "invalid format" ELSE "read", fs |-> fs]

\* err: the Error thrown, "Favorite ... not found" (947), "Profile ... not found
\* or invalid format" (959), or the one of the read
removeFavorite(fs, profileName, favoriteId, encryptionKey) ==
    LET needsEncryption == shouldEncryptProfile(profileName)
        rd == readJSON(fs, profileName, IF needsEncryption THEN encryptionKey ELSE NoKey)
    IN  IF rd.ok /\ isCharacterV2(rd.data)
        THEN LET kept == SelectSeq(favoritesOf(rd.data), LAMBDA fav : fav # favoriteId)
                 data == [rd.data EXCEPT !.character = ("favorites" :> kept) @@ @]
             IN  IF Len(kept) = Len(favoritesOf(rd.data))
                 THEN [ok |-> FALSE, err |-> "favorite not found", fs |-> fs]
                 ELSE [ok |-> TRUE, err |-> "none",
                       fs |-> writeFileContent(fs, profileName, stringify(data),
                                               encryptionKey, needsEncryption)]
        ELSE [ok |-> FALSE, err |-> IF rd.ok THEN "invalid format" ELSE "read", fs |-> fs]

\* <name>_avatar.txt, as a name of legacyTxt
AvatarTxt(profileName) ==
    CASE profileName = "Nova"  -> "Nova_avatar"
      [] profileName = "Astra" -> "Astra_avatar"
      [] profileName = "Echo"  -> "Echo_avatar"

\* deleteProfile that unlinks the canonical document only
deleteProfileJsonOnly(fs, txt, profileName) ==
    [fs |-> [fs EXCEPT ![profileName] = NoFile], txt |-> txt]

\* 603-613: Promise.allSettled of the three unlinks, a missing file is ignored
deleteProfile(fs, txt, profileName) ==
    [fs |-> [fs EXCEPT ![profileName] = NoFile],
     txt |-> txt \ {profileName, AvatarTxt(profileName)}]

-----------------------------------------------------------------------------
(* Re-encryption *)

\* reEncryptDoc without the alreadyReEncrypted flag: what decrypts under the
\* new key is written again
reEncryptDocNoFlag(fs, f, oldPassword, newPassword) ==
    LET rdOld == readFileContent(fs, f, oldPassword)
        rdNew == readFileContent(fs, f, newPassword)
        rd == IF rdOld.err = "none" THEN rdOld ELSE rdNew
    IN  IF rd.err = "none" /\ isJSON(rd.content)
        THEN [res |-> "rewritten",
              fs |-> IF f = UserFile
                     THEN writeFileContent(fs, f, stringify(rd.content.doc),
                                           newPassword, TRUE)
                     ELSE saveProfile(fs, f, rd.content.doc, newPassword)]
        ELSE [res |-> "error", fs |-> fs]

\* reEncryptDoc without the retry under the new key
reEncryptDocOldOnly(fs, f, oldPassword, newPassword) ==
    LET rdOld == readFileContent(fs, f, oldPassword)
    IN  IF rdOld.err = "none" /\ isJSON(rdOld.content)
        THEN [res |-> "rewritten",
              fs |-> IF f = UserFile
                     THEN writeFileContent(fs, f, stringify(rdOld.content.doc),
                                           newPassword, TRUE)
                     ELSE saveProfile(fs, f, rdOld.content.doc, newPassword)]
        ELSE [res |-> "error", fs |-> fs]

\* reEncryptDoc that logs a document neither key decrypts and goes on
reEncryptDocKeepGoing(fs, f, oldPassword, newPassword) ==
    LET rdOld == readFileContent(fs, f, oldPassword)
    IN  IF rdOld.err = "none" /\ isJSON(rdOld.content)
        THEN [res |-> "rewritten",
              fs |-> IF f = UserFile
                     THEN writeFileContent(fs, f, stringify(rdOld.content.doc),
                                           newPassword, TRUE)
                     ELSE saveProfile(fs, f, rdOld.content.doc, newPassword)]
        ELSE [res |-> "skipped", fs |-> fs]

\* one document of the run: the body of the loop (975-998), resp. 1006-1033
reEncryptDoc(fs, f, oldPassword, newPassword) ==
    LET rdOld == readFileContent(fs, f, oldPassword)
        rdNew == readFileContent(fs, f, newPassword)
    IN  IF rdOld.err = "none"
        THEN IF isJSON(rdOld.content)
             THEN [res |-> "rewritten",
                   fs |-> IF f = UserFile
                          THEN writeFileContent(fs, f, stringify(rdOld.content.doc),
                                                newPassword, TRUE)
                          ELSE saveProfile(fs, f, rdOld.content.doc, newPassword)]
             ELSE [res |-> "error", fs |-> fs]
        ELSE IF rdNew.err = "none"
             THEN [res |-> "skipped", fs |-> fs]
             ELSE [res |-> "error", fs |-> fs]

RECURSIVE reEncryptRun(_, _, _, _, _)
reEncryptRun(st, docs, oldPassword, newPassword, stopAfter) ==
    IF docs = <<>> THEN [st EXCEPT !.outcome = "ok"]
    ELSE IF stopAfter = 0
    THEN [st EXCEPT !.outcome = "crashed", !.pending = Range(docs)]
    ELSE LET f == Head(docs)
             r == reEncryptDoc(st.fs, f, oldPassword, newPassword)
         IN  IF r.res = "error"
             THEN [st EXCEPT !.outcome = "error", !.failed = {f},
                             !.pending = Range(Tail(docs))]
             ELSE reEncryptRun(
                     [st EXCEPT !.fs = r.fs,
                                !.rewritten = IF r.res = "rewritten" THEN @ \cup {f} ELSE @,
                                !.skipped = IF r.res = "skipped" THEN @ \cup {f} ELSE @],
                     Tail(docs), oldPassword, newPassword, stopAfter - 1)

\* the documents of a run in processing order: the private profiles in the
\* order listProfiles returned them, then the user document
runDocs(order) == SelectSeq(order, shouldEncryptProfile) \o <<UserFile>>

reEncryptAllData(fs, order, oldPassword, newPassword, stopAfter) ==
    reEncryptRun([fs |-> fs, outcome |-> "running", failed |-> {},
                  rewritten |-> {}, skipped |-> {}, pending |-> {}],
                 runDocs(order), oldPassword, newPassword, stopAfter)

Orders(S) == {o \in [1..Cardinality(S) -> S] : \A i, j \in DOMAIN o : o[i] = o[j] => i = j}

-----------------------------------------------------------------------------
(* Operations on character documents *)

GetProfile(profileName, encryptionKey) ==
    LET r == getProfile(files, legacyTxt, profileName, encryptionKey) IN
    /\ last' = [op |-> "getProfile", name |-> profileName, key |-> encryptionKey,
                outcome |-> IF r.ok THEN "ok" ELSE "error",
                data |-> IF r.ok THEN r.data ELSE Null]
    /\ UNCHANGED <<files, legacyTxt, defaultUserData, sessionVars>>

SaveProfile(profileName, profileData, encryptionKey) ==
    /\ files' = saveProfile(files, profileName, profileData, encryptionKey)
    /\ last' = [op |-> "saveProfile", name |-> profileName, key |-> encryptionKey,
                payload |-> profileData, outcome |-> "ok"]
    /\ UNCHANGED <<legacyTxt, defaultUserData, sessionVars>>

AddFavorite(profileName, favorite, encryptionKey) ==
    \E freshId \in GenIds :
        LET r == addFavorite(files, profileName, favorite, encryptionKey, freshId) IN
        /\ files[profileName] # NoFile =>
              /\ freshId \notin Range(favoritesOf(files[profileName].doc))
              /\ Len(favoritesOf(files[profileName].doc)) < MaxFavorites
        /\ files' = r.fs
        /\ last' = [op |-> "addFavorite", name |-> profileName, key |-> encryptionKey,
                    outcome |-> IF r.ok THEN "ok" ELSE "error",
                    id |-> IF r.ok THEN r.id ELSE "none",
                    \* the list the call found
                    before |-> IF files[profileName] # NoFile
                                  /\ isCharacterV2(files[profileName].doc)
                               THEN favoritesOf(files[profileName].doc) ELSE <<>>]
        /\ UNCHANGED <<legacyTxt, defaultUserData, sessionVars>>

RemoveFavorite(profileName, favoriteId, encryptionKey) ==
    LET r == removeFavorite(files, profileName, favoriteId, encryptionKey) IN
    /\ files' = r.fs
    /\ last' = [op |-> "removeFavorite", name |-> profileName, key |-> encryptionKey,
                outcome |-> IF r.ok THEN "ok" ELSE "error", err |-> r.err,
                id |-> favoriteId]
    /\ UNCHANGED <<legacyTxt, defaultUserData, sessionVars>>

DeleteProfile(profileName) ==
    /\ LET r == deleteProfile(files, legacyTxt, profileName)
       IN  files' = r.fs /\ legacyTxt' = r.txt
    /\ last' = [op |-> "deleteProfile", name |-> profileName, outcome |-> "ok",
                found |-> (IF files[profileName] # NoFile THEN {"json"} ELSE {})
                          \cup (IF profileName \in legacyTxt THEN {"txt"} ELSE {})
                          \cup (IF AvatarTxt(profileName) \in legacyTxt
                                THEN {"avatar"} ELSE {})]
    /\ UNCHANGED <<defaultUserData, sessionVars>>

ReEncryptRecord(r, order, oldPassword, newPassword) ==
    [op |-> "reEncryptAllData", old |-> oldPassword, new |-> newPassword,
     outcome |-> r.outcome, failed |-> r.failed, rewritten |-> r.rewritten,
     skipped |-> r.skipped, pending |-> r.pending,
     \* the envelopes the run found on the documents in its scope
     found |-> {files[d].env : d \in Range(runDocs(order))},
     \* how the call before ended, when it was a run with the same keys
     after |-> IF last.op = "reEncryptAllData" /\ last.old = oldPassword
                  /\ last.new = newPassword
               THEN last.outcome ELSE "none"]

\* a run that is left to finish: it returns or throws
ReEncryptAllData(oldPassword, newPassword) ==
    \E order \in Orders(listProfiles(files, legacyTxt)) :
        LET docs == runDocs(order)
            r == reEncryptAllData(files, order, oldPassword, newPassword, Len(docs))
        IN  /\ files' = r.fs
            /\ last' = ReEncryptRecord(r, order, oldPassword, newPassword)
            /\ UNCHANGED <<legacyTxt, defaultUserData, sessionVars>>

\* a run whose process dies after stopAfter documents
ReEncryptInterrupted(oldPassword, newPassword) ==
    \E order \in Orders(listProfiles(files, legacyTxt)) :
        \E stopAfter \in 0..(Len(runDocs(order)) - 1) :
            LET r == reEncryptAllData(files, order, oldPassword, newPassword, stopAfter)
            IN  /\ r.outcome = "crashed"
                /\ files' = r.fs
                /\ last' = ReEncryptRecord(r, order, oldPassword, newPassword)
                /\ UNCHANGED <<legacyTxt, defaultUserData, sessionVars>>

-----------------------------------------------------------------------------
(* The user document *)

\* user stands for the user section (name, gender, ..., every field is assigned
\* the same way); sharedMemory and the other settings flags likewise
DEFAULT_USER_DATA ==
    [version |-> "2.0", type |-> "user", user |-> [name |-> "User"], settings |-> EmptyObj]

settingsOf(data) == IF Has(data, "settings") THEN data.settings ELSE EmptyObj

\* x !== undefined ? x : false
flagOr(obj, f) == IF Has(obj, f) THEN obj[f] ELSE FALSE

\* the result of a call on the user document: the directory, DEFAULT_USER_DATA
\* (existingData = DEFAULT_USER_DATA is a reference to it) and whether it threw
saveUserSettings(fs, dflt, settings, encryptionKey) ==
    LET rd == readJSON(fs, UserFile, encryptionKey)
        \* 708-717: when fs.access succeeds the Error of line 714 is thrown inside
        \* the try block whose catch (accessErr) is empty, so it never leaves it
        existingData == IF rd.ok THEN rd.data ELSE dflt
        newSettings ==
            (IF Has(settings, "defaultActiveCharacter")
             THEN "defaultActiveCharacter" :> settings.defaultActiveCharacter
             ELSE EmptyObj)
            @@ [enableMemory |-> flagOr(settings, "enableMemory"),
                enableWebSearch |-> flagOr(settings, "enableWebSearch"),
                webSearchApiKey |-> OrStr(settings, "webSearchApiKey", "")]
            @@ settingsOf(existingData)
        data == [user |-> [name |-> OrStr(settings, "userName", "User")],
                 settings |-> newSettings] @@ existingData
    IN  [threw |-> FALSE,
         fs |-> writeFileContent(fs, UserFile, stringify(data), encryptionKey, TRUE),
         dflt |-> IF rd.ok THEN dflt ELSE data]

saveConsent(fs, dflt, consentData, encryptionKey) ==
    LET rd == readJSON(fs, UserFile, encryptionKey)
        existingData == IF rd.ok THEN rd.data ELSE dflt
        data == [consent |-> consentData] @@ existingData
    IN  [threw |-> FALSE,
         fs |-> writeFileContent(fs, UserFile, stringify(data), encryptionKey,
                                 encryptionKey # NoKey),
         dflt |-> IF rd.ok THEN dflt ELSE data]

\* 808-822: the consent of a user who has not answered yet
DefaultConsent == "default"

\* getConsent that never decrypts
getConsentPlainOnly(fs, encryptionKey) ==
    LET rd == readJSON(fs, UserFile, NoKey)
    IN  IF rd.ok /\ Has(rd.data, "consent") THEN rd.data.consent ELSE DefaultConsent

\* 793-824
getConsent(fs, encryptionKey) ==
    LET rd == readJSON(fs, UserFile, encryptionKey)
    IN  IF rd.ok /\ Has(rd.data, "consent") THEN rd.data.consent ELSE DefaultConsent

setActiveProfile(fs, dflt, profileName, encryptionKey) ==
    LET rd == readJSON(fs, UserFile, encryptionKey)
        \* newData = { ...DEFAULT_USER_DATA } shares the settings object
        existingData == IF rd.ok THEN rd.data ELSE dflt
        data == [settings |-> [defaultActiveCharacter |-> profileName]
                              @@ settingsOf(existingData)] @@ existingData
    IN  [threw |-> FALSE,
         fs |-> writeFileContent(fs, UserFile, stringify(data), encryptionKey, TRUE),
         dflt |-> IF rd.ok THEN dflt ELSE data]

SaveUserSettings(settings, encryptionKey) ==
    LET r == saveUserSettings(files, defaultUserData, settings, encryptionKey) IN
    /\ files' = r.fs
    /\ defaultUserData' = r.dflt
    /\ last' = [op |-> "saveUserSettings", key |-> encryptionKey, settings |-> settings,
                outcome |-> IF r.threw THEN "error" ELSE "ok"]
    /\ UNCHANGED <<legacyTxt, sessionVars>>

SaveConsent(consentData, encryptionKey) ==
    LET r == saveConsent(files, defaultUserData, consentData, encryptionKey) IN
    /\ files' = r.fs
    /\ defaultUserData' = r.dflt
    /\ last' = [op |-> "saveConsent", key |-> encryptionKey, consent |-> consentData,
                outcome |-> IF r.threw THEN "error" ELSE "ok"]
    /\ UNCHANGED <<legacyTxt, sessionVars>>

GetConsent(encryptionKey) ==
    /\ last' = [op |-> "getConsent", key |-> encryptionKey,
                ret |-> getConsent(files, encryptionKey)]
    /\ UNCHANGED <<files, legacyTxt, defaultUserData, sessionVars>>

SetActiveProfile(profileName, encryptionKey) ==
    LET r == setActiveProfile(files, defaultUserData, profileName, encryptionKey) IN
    /\ files' = r.fs
    /\ defaultUserData' = r.dflt
    /\ last' = [op |-> "setActiveProfile", key |-> encryptionKey, name |-> profileName,
                outcome |-> IF r.threw THEN "error" ELSE "ok"]
    /\ UNCHANGED <<legacyTxt, sessionVars>>

-----------------------------------------------------------------------------
(* Session manager (core/sessionManager.js)                                 *)
(* A Map is a function from the keys it has. getChatbot is an async         *)
(* function: a call in flight stands at one of its awaits, and other calls, *)
(* the timer and the clock may take steps meanwhile.                        *)

MaxTime == 2        \* the clock stops there
MaxAgents == 3      \* agent instances constructed in one behaviour
MaxHistory == 1     \* messages in a conversation history

\* this.sessionTimeout = 30 * 60 * 1000, in half hours
sessionTimeout == 1

SessionIds == {"s1", "s2"}
Characters == {"Nova", "Astra"}
SessionKeys == {NoKey, "k1"}
Calls == {1, 2}     \* the getChatbot calls that may be in flight at once
Idle == [pc |-> "idle"]

MapSet(m, k, v) == (k :> v) @@ m
MapDelete(m, k) == [x \in DOMAIN m \ {k} |-> m[x]]
MapGet(m, k) == IF k \in DOMAIN m THEN m[k] ELSE "undefined"

\* The agent (core/chatbotHybrid.js is not part of the sources): its loader's
\* key and active character, its history and its cached character slot
newHybridChatbot ==
    [key |-> NoKey, active |-> Null, history |-> 0, cachedCharacter |-> Null,
     initialized |-> FALSE]
setEncryptionKey(agent, key) == [agent EXCEPT !.key = key]
clearHistory(agent) == [agent EXCEPT !.history = 0]
getActiveCharacterName(agent) == agent.active
\* what loadCharacterAsync(name) may end with: an error, or a loaded character
\* (the one asked for, or another one)
LoadResults == {"fail"} \cup Characters

\* a characterName that is given and differs from the recorded one, whatever
\* the recorded one is
needsSwitchAlways(characterName, currentCharacter) == characterName # Null

\* 55: characterName && characterName !== currentCharacter
needsSwitch(characterName, currentCharacter) ==
    characterName # Null /\ characterName # currentCharacter

\* the switch without chatbot.clearHistory()
switchCharacterKeepHistory(chars, ags, sessionId, characterName, a) ==
    [sessionCharacters |-> MapSet(chars, sessionId, characterName),
     agents |-> [ags EXCEPT ![a] = [ags[a] EXCEPT !.cachedCharacter = Null]]]

\* 58-62, after the load: record the character, drop the cached one, clear
switchCharacter(chars, ags, sessionId, characterName, a) ==
    [sessionCharacters |-> MapSet(chars, sessionId, characterName),
     agents |-> [ags EXCEPT ![a] =
                    clearHistory([ags[a] EXCEPT !.cachedCharacter = Null])]]

\* a manager that never hands the key to the loader
injectKeyNever(agent, encryptionKey) == agent

\* 50-52, 80-84: if (encryptionKey) chatbot.characterLoader.setEncryptionKey(...)
injectKey(agent, encryptionKey) ==
    IF encryptionKey # NoKey THEN setEncryptionKey(agent, encryptionKey) ELSE agent

\* a creation that returns the agent without registering it
registerSessionNone(sess, sessionId, a) == sess

\* 106: this.sessions.set(sessionId, chatbot)
registerSession(sess, sessionId, a) == MapSet(sess, sessionId, a)

\* deleteSession that leaves the activity timestamp
deleteSessionKeepActivity(reg, sessionId) ==
    IF sessionId \in DOMAIN reg.sessions
    THEN [sessions |-> MapDelete(reg.sessions, sessionId),
          lastActivity |-> reg.lastActivity]
    ELSE reg

\* deleteSession that leaves the agent
deleteSessionKeepAgent(reg, sessionId) ==
    IF sessionId \in DOMAIN reg.sessions
    THEN [sessions |-> reg.sessions,
          lastActivity |-> MapDelete(reg.lastActivity, sessionId)]
    ELSE reg

\* 161-166, on reg = [sessions, lastActivity]
deleteSession(reg, sessionId) ==
    IF sessionId \in DOMAIN reg.sessions
    THEN [sessions |-> MapDelete(reg.sessions, sessionId),
          lastActivity |-> MapDelete(reg.lastActivity, sessionId)]
    ELSE reg

\* idle for the timeout or longer
isInactiveNonStrict(t, lastActive) == t - lastActive >= sessionTimeout

\* 213: now - lastActive > this.sessionTimeout
isInactive(t, lastActive) == t - lastActive > sessionTimeout

RECURSIVE deleteSessions(_, _)
deleteSessions(reg, ids) ==
    IF ids = {} THEN reg
    ELSE LET sessionId == CHOOSE x \in ids : TRUE
         IN  deleteSessions(deleteSession(reg, sessionId), ids \ {sessionId})

\* 208-223
cleanupInactiveSessions(reg, t) ==
    LET sessionsToDelete ==
            {sessionId \in DOMAIN reg.lastActivity :
                isInactive(t, reg.lastActivity[sessionId])}
    IN  deleteSessions(reg, sessionsToDelete)

\* no reloadCharacterForAllSessions call was made: snapshot is the session
\* ids the loop went over, pending is session id -> agent for the promises
\* not settled yet, done and failed the session ids whose promise was
\* fulfilled or rejected, returned what the caller's await got
NoReload ==
    [snapshot |-> {}, pending |-> EmptyObj, done |-> {}, failed |-> {},
     returned |-> "none"]

\* the agent re-reads the document of its active character (the document's
\* content is not part of the agent's state here)
reloadCharacter(agent) == [agent EXCEPT !.active = agent.active]

\* a rejected reload that takes the promises of the other sessions with it
dropRejectedAbort(pending, sessionId) == EmptyObj

\* 186-193: each promise is started in the loop and settles by itself;
\* Promise.all only watches them
dropRejected(pending, sessionId) == MapDelete(pending, sessionId)

\* 187-190: the then-callback of one session's reload
reloadThen(ags, act, sessionId, a, t) ==
    [agents |-> [ags EXCEPT ![a] = clearHistory(reloadCharacter(ags[a]))],
     lastActivity |-> MapSet(act, sessionId, t)]

\* clearSession that clears the conversation of every registered session
clearSessionAll(ags, sess, act, sessionId, t) ==
    IF sessionId \in DOMAIN sess
    THEN [agents |-> [a \in DOMAIN ags |->
                         IF a \in Range(sess) THEN clearHistory(ags[a]) ELSE ags[a]],
          lastActivity |-> [s \in DOMAIN sess |-> t] @@ act]
    ELSE [agents |-> ags, lastActivity |-> act]

\* 150-156
clearSession(ags, sess, act, sessionId, t) ==
    IF sessionId \in DOMAIN sess
    THEN [agents |-> [ags EXCEPT ![sess[sessionId]] = clearHistory(@)],
          lastActivity |-> MapSet(act, sessionId, t)]
    ELSE [agents |-> ags, lastActivity |-> act]

RequestIds == {"r1", "r2"}

\* trackRequestId that tells the caller to drop a request that is not the
\* latest one recorded
trackRequestIdDropStale(ids, sessionId, requestId) ==
    IF requestId = Null THEN [ret |-> TRUE, latestRequestIds |-> ids]
    ELSE [ret |-> ~(sessionId \in DOMAIN ids /\ ids[sessionId] # requestId),
          latestRequestIds |-> MapSet(ids, sessionId, requestId)]

\* 118-131
trackRequestId(ids, sessionId, requestId) ==
    IF requestId = Null THEN [ret |-> TRUE, latestRequestIds |-> ids]
    ELSE [ret |-> TRUE, latestRequestIds |-> MapSet(ids, sessionId, requestId)]

\* 228-230
needsStarter(shown, characterName) == characterName \notin shown

\* markStarterShown that records nothing
markStarterShownNone(shown, characterName) == shown

\* 235-237
markStarterShown(shown, characterName) == shown \cup {characterName}

\* 243-245
clearAllStarterTracking(shown) == {}

\* the calls in flight for a session, and the mark they get when another call
\* for the same session begins
InFlight(sessionId) == {i \in Calls : calls[i] # Idle /\ calls[i].sid = sessionId}
Overlap(cs, sessionId) ==
    [i \in Calls |-> IF cs[i] # Idle /\ cs[i].sid = sessionId
                     THEN [cs[i] EXCEPT !.overlapped = TRUE] ELSE cs[i]]

\* an instance that neither the registry nor a call in flight refers to is
\* garbage: the model forgets its state, its identity is never used again
CollectWith(ags, sess, cs, pend) ==
    LET live == {sess[s] : s \in DOMAIN sess}
                \cup {cs[i].agent : i \in {j \in Calls : cs[j] # Idle}}
                \cup {pend[s] : s \in DOMAIN pend}
    IN  [a \in DOMAIN ags \cap live |-> ags[a]]
Collect(ags, sess, cs) == CollectWith(ags, sess, cs, reloading.pending)

\* the agents handed out for a session while it is registered
Issue(iss, regd, sessionId, a) ==
    IF sessionId \in regd THEN [iss EXCEPT ![sessionId] = @ \cup {a}] ELSE iss

\* 36-57 / 36-98: a call begins and runs to its first await or to its return
GetChatbot(i, sessionId, characterName, encryptionKey) ==
    /\ calls[i] = Idle
    /\ \A j \in Calls : j < i => calls[j] # Idle
    /\ IF sessionId = ""
       THEN /\ last' = [op |-> "getChatbot", sid |-> sessionId, outcome |-> "error",
                        err |-> "Session ID is required"]
            /\ UNCHANGED <<storeVars, auxVars, sessionVars>>
       ELSE
       /\ lastActivity' = MapSet(lastActivity, sessionId, now)
       /\ IF sessionId \in DOMAIN sessions
          THEN LET a == sessions[sessionId]
                   currentCharacter == MapGet(sessionCharacters, sessionId)
                   keyed == [agents EXCEPT ![a] = injectKey(@, encryptionKey)]
               IN  /\ agents' = keyed
                   /\ IF needsSwitch(characterName, currentCharacter)
                      THEN /\ calls' = [Overlap(calls, sessionId) EXCEPT ![i] =
                                  [pc |-> "switch", sid |-> sessionId,
                                   char |-> characterName, agent |-> a,
                                   current |-> currentCharacter,
                                   overlapped |-> InFlight(sessionId) # {}]]
                           /\ last' = [op |-> "getChatbot.await", sid |-> sessionId,
                                       created |-> FALSE]
                           /\ UNCHANGED issued
                      ELSE /\ calls' = Overlap(calls, sessionId)
                           /\ last' = [op |-> "getChatbot", sid |-> sessionId,
                                       char |-> characterName, outcome |-> "ok",
                                       agent |-> a, found |-> a,
                                       current |-> currentCharacter,
                                       state |-> keyed[a],
                                       hadHistory |-> agents[a].history,
                                       created |-> FALSE, switched |-> FALSE,
                                       overlapped |-> InFlight(sessionId) # {}]
                           /\ issued' = Issue(issued, DOMAIN sessions, sessionId, a)
                   /\ UNCHANGED <<sessions, sessionCharacters, agentCount>>
          ELSE /\ agentCount < MaxAgents
               /\ agentCount' = agentCount + 1
               /\ agents' = MapSet(agents, agentCount + 1,
                                   injectKey(newHybridChatbot, encryptionKey))
               /\ calls' = [Overlap(calls, sessionId) EXCEPT ![i] =
                      [pc |-> "create", sid |-> sessionId, char |-> characterName,
                       agent |-> agentCount + 1,
                       current |-> MapGet(sessionCharacters, sessionId),
                       overlapped |-> InFlight(sessionId) # {}]]
               /\ last' = [op |-> "getChatbot.await", sid |-> sessionId,
                           created |-> TRUE, key |-> encryptionKey]
               /\ UNCHANGED <<sessions, sessionCharacters, issued>>
       /\ UNCHANGED <<storeVars, auxVars, now, reaped>>

\* 57 / 88 / 98 / 139: the load a call awaits ends, with the loader's character set
\* or with an error that the call lets through
LoadCharacter(i, result) ==
    /\ calls[i] # Idle /\ calls[i].pc \in {"switch", "create", "setActive"}
    /\ IF result = "fail"
       THEN /\ calls' = [calls EXCEPT ![i] = Idle]
            /\ last' = [op |-> IF calls[i].pc = "setActive"
                               THEN "setActiveCharacterForSession" ELSE "getChatbot",
                        sid |-> calls[i].sid,
                        char |-> calls[i].char, outcome |-> "error",
                        err |-> "load", agent |-> calls[i].agent,
                        created |-> calls[i].pc = "create", switched |-> FALSE,
                        overlapped |-> calls[i].overlapped]
            /\ agents' = Collect(agents, sessions, calls')
       ELSE /\ calls' = [calls EXCEPT ![i].pc =
                            IF calls[i].pc = "switch" THEN "switched"
                            ELSE IF calls[i].pc = "create" THEN "loaded" ELSE "set"]
            /\ agents' = [agents EXCEPT ![calls[i].agent].active = result]
            /\ last' = [op |-> "loadCharacterAsync", sid |-> calls[i].sid,
                        loaded |-> result]
    /\ UNCHANGED <<storeVars, auxVars, sessions, sessionCharacters, lastActivity, now,
                   agentCount, issued, reaped>>

\* 58-73: the switching call goes on after its load and returns the agent
ResumeSwitch(i) ==
    /\ calls[i] # Idle /\ calls[i].pc = "switched"
    /\ LET c == calls[i]
           r == switchCharacter(sessionCharacters, agents, c.sid, c.char, c.agent)
       IN  /\ sessionCharacters' = r.sessionCharacters
           /\ calls' = [calls EXCEPT ![i] = Idle]
           /\ agents' = Collect(r.agents, sessions, calls')
           /\ last' = [op |-> "getChatbot", sid |-> c.sid, char |-> c.char,
                       outcome |-> "ok", agent |-> c.agent, found |-> c.agent,
                       current |-> c.current,
                       state |-> r.agents[c.agent],
                       hadHistory |-> agents[c.agent].history,
                       loaded |-> getActiveCharacterName(agents[c.agent]),
                       created |-> FALSE, switched |-> TRUE,
                       overlapped |-> c.overlapped]
           /\ issued' = Issue(issued, DOMAIN sessions, c.sid, c.agent)
    /\ UNCHANGED <<storeVars, auxVars, sessions, lastActivity, now, agentCount, reaped>>

\* 89-104: the creating call records the character and starts initialize()
ResumeCreate(i) ==
    /\ calls[i] # Idle /\ calls[i].pc = "loaded"
    /\ sessionCharacters' =
          MapSet(sessionCharacters, calls[i].sid,
                 IF calls[i].char # Null THEN calls[i].char
                 ELSE getActiveCharacterName(agents[calls[i].agent]))
    /\ calls' = [calls EXCEPT ![i].pc = "init"]
    /\ last' = [op |-> "getChatbot.initialize", sid |-> calls[i].sid]
    /\ UNCHANGED <<storeVars, auxVars, sessions, lastActivity, now, agents, agentCount, issued,
                   reaped>>

\* 104-108: initialize() ends; the call registers the agent and returns it, or
\* lets the error through
FinishCreate(i, ok) ==
    /\ calls[i] # Idle /\ calls[i].pc = "init"
    /\ calls' = [calls EXCEPT ![i] = Idle]
    /\ LET c == calls[i] IN
       IF ok
       THEN /\ sessions' = registerSession(sessions, c.sid, c.agent)
            /\ agents' = Collect([agents EXCEPT ![c.agent].initialized = TRUE],
                                 sessions', calls')
            /\ last' = [op |-> "getChatbot", sid |-> c.sid, char |-> c.char,
                        outcome |-> "ok", agent |-> c.agent,
                        found |-> MapGet(sessions, c.sid), current |-> c.current,
                        state |-> [agents[c.agent] EXCEPT !.initialized = TRUE],
                        hadHistory |-> agents[c.agent].history,
                        loaded |-> getActiveCharacterName(agents[c.agent]),
                        created |-> TRUE, switched |-> FALSE,
                        overlapped |-> c.overlapped]
            /\ issued' = Issue(issued, DOMAIN sessions \cup {c.sid}, c.sid, c.agent)
       ELSE /\ last' = [op |-> "getChatbot", sid |-> c.sid, char |-> c.char,
                        outcome |-> "error", err |-> "initialize",
                        agent |-> c.agent, created |-> TRUE, switched |-> FALSE,
                        overlapped |-> c.overlapped]
            /\ agents' = Collect(agents, sessions, calls')
            /\ UNCHANGED <<sessions, issued>>
    /\ UNCHANGED <<storeVars, auxVars, sessionCharacters, lastActivity, now, agentCount, reaped>>

\* 161-166
DeleteSession(sessionId) ==
    LET r == deleteSession([sessions |-> sessions, lastActivity |-> lastActivity],
                           sessionId)
    IN  /\ sessions' = r.sessions
        /\ lastActivity' = r.lastActivity
        /\ issued' = IF sessionId \in DOMAIN sessions /\ sessionId \notin DOMAIN r.sessions
                     THEN [issued EXCEPT ![sessionId] = {}] ELSE issued
        /\ agents' = Collect(agents, r.sessions, calls)
        /\ last' = [op |-> "deleteSession", sid |-> sessionId, outcome |-> "ok"]
        /\ UNCHANGED <<storeVars, auxVars, sessionCharacters, now, agentCount, calls, reaped>>

\* 199-223: the timer fires
CleanupInactiveSessions ==
    LET r == cleanupInactiveSessions([sessions |-> sessions,
                                      lastActivity |-> lastActivity], now)
        removed == DOMAIN sessions \ DOMAIN r.sessions
    IN  /\ sessions' = r.sessions
        /\ lastActivity' = r.lastActivity
        /\ issued' = [s \in SessionIds |-> IF s \in removed THEN {} ELSE issued[s]]
        /\ reaped' = reaped \cup {sessions[s] : s \in removed}
        /\ agents' = Collect(agents, r.sessions, calls)
        /\ last' = [op |-> "cleanupInactiveSessions", removed |-> removed]
        /\ UNCHANGED <<storeVars, auxVars, sessionCharacters, now, agentCount, calls>>

\* 183-193: the call starts chatbot.reloadCharacter() for every registered
\* session and awaits Promise.all
ReloadCharacterForAllSessions ==
    /\ reloading.pending = EmptyObj
    /\ reloading' = [snapshot |-> DOMAIN sessions,
                     pending |-> sessions, done |-> {}, failed |-> {},
                     returned |-> IF sessions = EmptyObj THEN "resolved" ELSE "pending"]
    /\ last' = [op |-> "reloadCharacterForAllSessions", snapshot |-> DOMAIN sessions]
    /\ UNCHANGED <<storeVars, authVars, sessions, sessionCharacters, lastActivity, now, agents,
                   agentCount, calls, issued, reaped, latestRequestIds,
                   charactersWithStarters>>

\* 187-193: the reload of one session settles; fulfilled, its then-callback
\* runs; rejected, Promise.all rejects unless it has already
ReloadSettle(sessionId, ok) ==
    /\ sessionId \in DOMAIN reloading.pending
    /\ LET a == reloading.pending[sessionId]
           r == reloadThen(agents, lastActivity, sessionId, a, now)
           pend == IF ok THEN MapDelete(reloading.pending, sessionId)
                   ELSE dropRejected(reloading.pending, sessionId)
       IN  /\ reloading' =
                 [snapshot |-> reloading.snapshot,
                  pending |-> pend,
                  done |-> IF ok THEN reloading.done \cup {sessionId} ELSE reloading.done,
                  failed |-> IF ok THEN reloading.failed
                             ELSE reloading.failed \cup {sessionId},
                  returned |-> IF reloading.returned # "pending" THEN reloading.returned
                               ELSE IF ~ok THEN "rejected"
                               ELSE IF pend = EmptyObj THEN "resolved" ELSE "pending"]
           /\ agents' = CollectWith(IF ok THEN r.agents ELSE agents, sessions, calls, pend)
           /\ lastActivity' = IF ok THEN r.lastActivity ELSE lastActivity
           /\ last' = [op |-> "reloadCharacter", sid |-> sessionId, ok |-> ok,
                       agent |-> a, state |-> IF ok THEN r.agents[a] ELSE agents[a],
                       hadHistory |-> agents[a].history]
    /\ UNCHANGED <<storeVars, authVars, sessions, sessionCharacters, now, agentCount, calls,
                   issued, reaped, latestRequestIds, charactersWithStarters>>

\* 150-156
ClearSession(sessionId) ==
    LET r == clearSession(agents, sessions, lastActivity, sessionId, now)
    IN  /\ agents' = r.agents
        /\ lastActivity' = r.lastActivity
        /\ last' = [op |-> "clearSession", sid |-> sessionId,
                    found |-> sessionId \in DOMAIN sessions]
        /\ UNCHANGED <<storeVars, auxVars, sessions, sessionCharacters, now, agentCount,
                       calls, issued, reaped>>

\* 171-174: the call finds the agent of the session and awaits its
\* reloadCharacter(); 175-176 run when that promise settles (ReloadSettle).
\* Without a registered agent the call does nothing.
ReloadCharacterForSession(sessionId) ==
    /\ reloading.pending = EmptyObj
    /\ reloading' =
          IF sessionId \in DOMAIN sessions
          THEN [snapshot |-> {sessionId},
                pending |-> (sessionId :> sessions[sessionId]),
                done |-> {}, failed |-> {}, returned |-> "pending"]
          ELSE [NoReload EXCEPT !.returned = "resolved"]
    /\ last' = [op |-> "reloadCharacterForSession", sid |-> sessionId,
                found |-> sessionId \in DOMAIN sessions]
    /\ UNCHANGED <<storeVars, authVars, sessions, sessionCharacters, lastActivity, now,
                   agents, agentCount, calls, issued, reaped, latestRequestIds,
                   charactersWithStarters>>

\* 133-139: the call finds the agent of the session, or throws, and awaits the load
SetActiveCharacterForSession(i, sessionId, characterName) ==
    /\ calls[i] = Idle
    /\ \A j \in Calls : j < i => calls[j] # Idle
    /\ IF sessionId \in DOMAIN sessions
       THEN /\ calls' = [Overlap(calls, sessionId) EXCEPT ![i] =
                   [pc |-> "setActive", sid |-> sessionId, char |-> characterName,
                    agent |-> sessions[sessionId],
                    current |-> MapGet(sessionCharacters, sessionId),
                    overlapped |-> InFlight(sessionId) # {}]]
            /\ last' = [op |-> "setActiveCharacterForSession.await",
                        sid |-> sessionId]
       ELSE /\ last' = [op |-> "setActiveCharacterForSession", sid |-> sessionId,
                        char |-> characterName, outcome |-> "error",
                        err |-> "not found"]
            /\ UNCHANGED calls
    /\ UNCHANGED <<storeVars, auxVars, sessions, sessionCharacters, lastActivity, now,
                   agents, agentCount, issued, reaped>>

\* 140-144: the call goes on after its load
ResumeSetActive(i) ==
    /\ calls[i] # Idle /\ calls[i].pc = "set"
    /\ LET c == calls[i]
           r == switchCharacter(sessionCharacters, agents, c.sid, c.char, c.agent)
       IN  /\ sessionCharacters' = r.sessionCharacters
           /\ calls' = [calls EXCEPT ![i] = Idle]
           /\ agents' = Collect(r.agents, sessions, calls')
           /\ last' = [op |-> "setActiveCharacterForSession", sid |-> c.sid,
                       char |-> c.char, outcome |-> "ok", agent |-> c.agent,
                       state |-> r.agents[c.agent],
                       loaded |-> getActiveCharacterName(agents[c.agent])]
    /\ UNCHANGED <<storeVars, auxVars, sessions, lastActivity, now, agentCount, issued,
                   reaped>>

\* 118-131
TrackRequestId(sessionId, requestId) ==
    LET r == trackRequestId(latestRequestIds, sessionId, requestId)
    IN  /\ latestRequestIds' = r.latestRequestIds
        /\ last' = [op |-> "trackRequestId", sid |-> sessionId, req |-> requestId,
                    ret |-> r.ret]
        /\ UNCHANGED <<storeVars, authVars, sessions, sessionCharacters, lastActivity, now, agents,
                       agentCount, calls, issued, reaped, charactersWithStarters,
                       reloading>>

\* 228-230
NeedsStarter(characterName) ==
    /\ last' = [op |-> "needsStarter", char |-> characterName,
                ret |-> needsStarter(charactersWithStarters, characterName)]
    /\ UNCHANGED <<storeVars, sessionVars>>

\* 235-237
MarkStarterShown(characterName) ==
    /\ charactersWithStarters' = markStarterShown(charactersWithStarters, characterName)
    /\ last' = [op |-> "markStarterShown", char |-> characterName]
    /\ UNCHANGED <<storeVars, authVars, sessions, sessionCharacters, lastActivity, now, agents,
                   agentCount, calls, issued, reaped, latestRequestIds, reloading>>

\* 243-245
ClearAllStarterTracking ==
    /\ charactersWithStarters' = clearAllStarterTracking(charactersWithStarters)
    /\ last' = [op |-> "clearAllStarterTracking"]
    /\ UNCHANGED <<storeVars, authVars, sessions, sessionCharacters, lastActivity, now, agents,
                   agentCount, calls, issued, reaped, latestRequestIds, reloading>>

\* auth.js 95-151, POST /auth/logout: sessionId is req.body.sessionId or the
\* x-session-id header, "" when the request carries neither
Logout(sessionId) ==
    /\ IF sessionId # ""
       THEN LET r == deleteSession([sessions |-> sessions,
                                    lastActivity |-> lastActivity], sessionId)
            IN  /\ sessions' = r.sessions
                /\ lastActivity' = r.lastActivity
                /\ issued' = IF sessionId \in DOMAIN sessions
                                /\ sessionId \notin DOMAIN r.sessions
                             THEN [issued EXCEPT ![sessionId] = {}] ELSE issued
                /\ agents' = Collect(agents, r.sessions, calls)
                /\ charactersWithStarters' =
                      clearAllStarterTracking(charactersWithStarters)
       ELSE UNCHANGED <<sessions, lastActivity, issued, agents, charactersWithStarters>>
    /\ reqSession' = NoAuth
    /\ last' = [op |-> "logout", sid |-> sessionId, outcome |-> "ok"]
    /\ UNCHANGED <<storeVars, sessionCharacters, now, agentCount, calls, reaped,
                   latestRequestIds, reloading, appPasswordHash, envFile>>

\* time passes
Tick ==
    /\ now < MaxTime
    /\ now' = now + 1
    /\ last' = [op |-> "tick"]
    /\ UNCHANGED <<storeVars, auxVars, sessions, sessionCharacters, lastActivity, agents,
                   agentCount, calls, issued, reaped>>

\* the agent of a session takes a message: its history grows and it caches
\* the character it answers as
Chat(sessionId) ==
    /\ sessionId \in DOMAIN sessions
    /\ agents[sessions[sessionId]].history < MaxHistory
    /\ agents' = [agents EXCEPT ![sessions[sessionId]] =
                     [@ EXCEPT !.history = @ + 1, !.cachedCharacter = agents[sessions[sessionId]].active]]
    /\ last' = [op |-> "chat", sid |-> sessionId]
    /\ UNCHANGED <<storeVars, auxVars, sessions, sessionCharacters, lastActivity, now, agentCount,
                   calls, issued, reaped>>

\* 10-31: the constructor
InitSession ==
    /\ sessions = EmptyObj
    /\ sessionCharacters = EmptyObj
    /\ lastActivity = EmptyObj
    /\ now = 0
    /\ agents = EmptyObj
    /\ agentCount = 0
    /\ calls = [i \in Calls |-> Idle]
    /\ issued = [s \in SessionIds |-> {}]
    /\ reaped = {}
    /\ latestRequestIds = EmptyObj
    /\ charactersWithStarters = {}
    /\ reloading = NoReload
    /\ appPasswordHash = bcryptHash(InitialPassword)
    /\ envFile = bcryptHash(InitialPassword)
    /\ reqSession = NoAuth

\* the server process starts again: the module is loaded afresh, the directory stays
Restart ==
    /\ defaultUserData # DEFAULT_USER_DATA
    /\ defaultUserData' = DEFAULT_USER_DATA
    /\ last' = [op |-> "restart"]
    /\ sessions' = EmptyObj
    /\ sessionCharacters' = EmptyObj
    /\ lastActivity' = EmptyObj
    /\ agents' = EmptyObj
    /\ agentCount' = 0
    /\ calls' = [i \in Calls |-> Idle]
    /\ issued' = [s \in SessionIds |-> {}]
    /\ reaped' = {}
    /\ latestRequestIds' = EmptyObj
    /\ charactersWithStarters' = {}
    /\ reloading' = NoReload
    /\ appPasswordHash' = envFile
    /\ reqSession' = NoAuth
    /\ UNCHANGED <<files, legacyTxt, now, envFile>>

-----------------------------------------------------------------------------
(* Authentication routes (routes/auth.js 26-292) *)

\* the passwords a request may carry: "" stands for a field that is missing
\* or empty, "short" for one of fewer than 12 characters, the keys for
\* passwords of 12 characters or more
Passwords == {"", "short"} \cup Keys
MinPasswordLength == 12
passwordLength(p) == IF p = "" THEN 0 ELSE IF p = "short" THEN 5 ELSE MinPasswordLength

\* APP_PASSWORD_HASH is not set
NoHash == [unset |-> TRUE]

\* 28-78: what login answers and the session it leaves
login(hash, sess, password) ==
    IF password = "" THEN [status |-> 400, session |-> sess]
    ELSE IF hash = NoHash THEN [status |-> 500, session |-> sess]
    ELSE IF bcryptCompare(password, hash)
         THEN [status |-> 200,
               session |-> [authenticated |-> TRUE, encryptionKey |-> password]]
         ELSE [status |-> 401, session |-> sess]

\* 177-217 without the length test of 201
rejectChangePasswordAnyLength(sess, newPassword, confirmPassword) ==
    IF ~sess.authenticated THEN "unauthenticated"
    ELSE IF newPassword = "" \/ confirmPassword = "" THEN "missing"
    ELSE IF newPassword # confirmPassword THEN "mismatch"
    ELSE IF sess.encryptionKey = NoKey THEN "expired"
    ELSE "none"

\* 177-217: the tests a change-password request has to pass, in their order
rejectChangePassword(sess, newPassword, confirmPassword) ==
    IF ~sess.authenticated THEN "unauthenticated"
    ELSE IF newPassword = "" \/ confirmPassword = "" THEN "missing"
    ELSE IF newPassword # confirmPassword THEN "mismatch"
    ELSE IF passwordLength(newPassword) < MinPasswordLength THEN "short"
    ELSE IF sess.encryptionKey = NoKey THEN "expired"
    ELSE "none"

\* how the .env file behaves during a request
EnvOutcomes == {"ok", "readFails", "writeFails"}

\* 175-292: the whole handler, over the listing order listProfiles returned
changePassword(fs, order, hash, envf, sess, newPassword, confirmPassword, env) ==
    LET rej == rejectChangePassword(sess, newPassword, confirmPassword)
        same == [fs |-> fs, hash |-> hash, envFile |-> envf, session |-> sess]
    IN  IF rej # "none"
        THEN same @@ [status |-> IF rej = "unauthenticated" THEN 401 ELSE 400,
                      reason |-> rej]
        ELSE LET r == reEncryptAllData(fs, order, sess.encryptionKey, newPassword,
                                       Len(runDocs(order)))
             IN  IF r.outcome # "ok"
                 THEN [same EXCEPT !.fs = r.fs]
                         @@ [status |-> 500, reason |-> "reEncrypt"]
                 ELSE IF env # "ok"
                 THEN [same EXCEPT !.fs = r.fs] @@ [status |-> 500, reason |-> env]
                 ELSE [fs |-> r.fs, hash |-> bcryptHash(newPassword),
                       envFile |-> bcryptHash(newPassword),
                       session |-> [sess EXCEPT !.encryptionKey = newPassword],
                       status |-> 200, reason |-> "none"]

\* POST /auth/login
Login(password) ==
    LET r == login(appPasswordHash, reqSession, password)
    IN  /\ reqSession' = r.session
        /\ last' = [op |-> "login", password |-> password, status |-> r.status]
        /\ UNCHANGED <<storeVars, sessions, sessionCharacters, lastActivity, now, agents,
                       agentCount, calls, issued, reaped, latestRequestIds,
                       charactersWithStarters, reloading, appPasswordHash, envFile>>

\* POST /auth/change-password
ChangePassword(newPassword, confirmPassword, env) ==
    \E order \in Orders(listProfiles(files, legacyTxt)) :
        LET r == changePassword(files, order, appPasswordHash, envFile, reqSession,
                                newPassword, confirmPassword, env)
        IN  /\ files' = r.fs
            /\ appPasswordHash' = r.hash
            /\ envFile' = r.envFile
            /\ reqSession' = r.session
            /\ last' = [op |-> "changePassword", new |-> newPassword,
                        confirm |-> confirmPassword, env |-> env,
                        session |-> reqSession, status |-> r.status,
                        reason |-> r.reason]
            /\ UNCHANGED <<legacyTxt, defaultUserData, sessions, sessionCharacters,
                           lastActivity, now, agents, agentCount, calls, issued, reaped,
                           latestRequestIds, charactersWithStarters, reloading>>

-----------------------------------------------------------------------------
(* Specification of the character-document operations *)

CharNames == {"Nova"}
CallKeys == Keys \cup {NoKey}

\* what a caller posts: a flat character object (any subset of the fields,
\* empty form fields included) ...
FlatPayloads ==
    {EmptyObj,
     [gender |-> "male", age |-> "30", notifications |-> FALSE],
     [gender |-> "", age |-> ""],
     [favorites |-> <<"f1">>],
     [gender |-> "male", favorites |-> <<>>]}

\* ... or a full version 2.0 document
FullPayloads ==
    {[version |-> "2.0", type |-> "character",
      character |-> [gender |-> "male", age |-> 30, notifications |-> TRUE,
                     favorites |-> <<"f1">>]]}

InitChar ==
    /\ files = [f \in FileNames |-> NoFile]
    /\ legacyTxt = {}
    /\ defaultUserData = DEFAULT_USER_DATA
    /\ last = [op |-> "init"]
    /\ InitSession

NextChar ==
    \/ \E n \in CharNames, p \in FlatPayloads \cup FullPayloads, k \in CallKeys :
          SaveProfile(n, p, k)
    \/ \E n \in CharNames, fav \in OptField("id", FavIds), k \in CallKeys :
          AddFavorite(n, fav, k)
    \/ \E n \in CharNames, id \in FavIds \cup GenIds, k \in CallKeys :
          RemoveFavorite(n, id, k)
    \/ \E o \in Keys, n \in Keys : ReEncryptAllData(o, n)
    \/ \E n \in CharNames, k \in CallKeys : GetProfile(n, k)
    \/ \E n \in CharNames : DeleteProfile(n)

SpecChar == InitChar /\ [][NextChar]_vars

-----------------------------------------------------------------------------
(* Specification of a public profile beside a private one *)

InitPublic ==
    /\ files = [f \in FileNames |->
                  IF f \in {"Nova", UserFile}
                  THEN encrypt(stringify(IF f = "Nova"
                                         THEN buildCharacter(EmptyObj, [ok |-> FALSE])
                                         ELSE DEFAULT_USER_DATA), "k1")
                  ELSE NoFile]
    /\ legacyTxt = {}
    /\ defaultUserData = DEFAULT_USER_DATA
    /\ last = [op |-> "init"]
    /\ InitSession

NextPublic ==
    \/ \E n \in PUBLIC_PROFILES \cap ProfileNames, p \in FlatPayloads \cup FullPayloads,
          k \in CallKeys : SaveProfile(n, p, k)
    \/ \E n \in PUBLIC_PROFILES \cap ProfileNames, fav \in OptField("id", FavIds),
          k \in CallKeys : AddFavorite(n, fav, k)
    \/ \E n \in PUBLIC_PROFILES \cap ProfileNames, id \in FavIds \cup GenIds,
          k \in CallKeys : RemoveFavorite(n, id, k)
    \/ \E o \in Keys, n \in Keys : ReEncryptAllData(o, n)
    \/ \E n \in PUBLIC_PROFILES \cap ProfileNames, k \in CallKeys : GetProfile(n, k)

SpecPublic == InitPublic /\ [][NextPublic]_vars

-----------------------------------------------------------------------------
(* Specification of the operations on the user document *)

\* what the settings page posts (every field), and partial updates
SettingsPayloads ==
    {[userName |-> "Ana", enableMemory |-> TRUE, enableWebSearch |-> TRUE,
      webSearchApiKey |-> "key", defaultActiveCharacter |-> "Nova"],
     [userName |-> "Ana", enableMemory |-> FALSE, enableWebSearch |-> FALSE,
      webSearchApiKey |-> "", defaultActiveCharacter |-> Null],
     [userName |-> "Ana"],
     [enableMemory |-> TRUE]}

ConsentPayloads == {"accepted"}

NextUser ==
    \/ \E st \in SettingsPayloads, k \in CallKeys : SaveUserSettings(st, k)
    \/ \E c \in ConsentPayloads, k \in CallKeys : SaveConsent(c, k)
    \/ \E n \in {"Nova", "Echo"}, k \in CallKeys : SetActiveProfile(n, k)
    \/ Restart

SpecUser == InitChar /\ [][NextUser]_vars

-----------------------------------------------------------------------------
(* Specification of consent before and after login *)

\* two consent documents, so that an update shows
ConsentDocs == {"accepted", "withdrawn"}

NextConsent ==
    \/ \E c \in ConsentDocs, k \in CallKeys : SaveConsent(c, k)
    \/ \E k \in CallKeys : GetConsent(k)
    \/ \E k \in CallKeys : SaveUserSettings([userName |-> "Ana"], k)
    \/ Restart

SpecConsent == InitChar /\ [][NextConsent]_vars

-----------------------------------------------------------------------------
(* Specification of reading and deleting over the documents a directory may hold *)

\* what <name>.json may hold: a canonical character document in clear or
\* encrypted, a document of another type, one without a version
StoredDocs ==
    {buildCharacter(EmptyObj, [ok |-> FALSE]),
     DEFAULT_USER_DATA,
     [name |-> "Nova"]}
StoredContents ==
    {NoFile} \cup {stringify(d) : d \in StoredDocs}
             \cup {encrypt(stringify(d), "k1") : d \in StoredDocs}

InitLegacy ==
    /\ files \in {[f \in FileNames |-> IF f = "Nova" THEN c
                                       ELSE IF f = "Echo" THEN e ELSE NoFile] :
                      c \in StoredContents,
                      e \in {NoFile, stringify(buildCharacter(EmptyObj, [ok |-> FALSE]))}}
    /\ legacyTxt \in SUBSET {"Nova", "Nova_avatar", "Echo"}
    /\ defaultUserData = DEFAULT_USER_DATA
    /\ last = [op |-> "init"]
    /\ InitSession

NextLegacy ==
    \/ \E n \in {"Nova", "Echo"}, k \in CallKeys : GetProfile(n, k)
    \/ \E n \in {"Nova", "Echo"} : DeleteProfile(n)
    \/ \E n \in {"Nova"}, k \in CallKeys : SaveProfile(n, EmptyObj, k)

SpecLegacy == InitLegacy /\ [][NextLegacy]_vars

-----------------------------------------------------------------------------
(* Specification of re-encryption over a corpus of several documents *)

\* the private profiles; a public one beside them is the subject of SpecPublic
CorpusNames == {n \in ProfileNames : shouldEncryptProfile(n)}
CorpusPayloads == {[gender |-> "male", favorites |-> <<"f1">>]}
CorpusKeys == StoreKeys \cup {NoKey}

InitReEncrypt ==
    /\ files = [f \in FileNames |-> NoFile]
    /\ legacyTxt \in SUBSET {"Astra"}
    /\ defaultUserData = DEFAULT_USER_DATA
    /\ last = [op |-> "init"]
    /\ InitSession

NextReEncrypt ==
    \/ \E n \in CorpusNames, p \in CorpusPayloads, k \in CorpusKeys : SaveProfile(n, p, k)
    \/ \E c \in ConsentPayloads, k \in CorpusKeys : SaveConsent(c, k)
    \/ \E o \in Keys, n \in Keys : ReEncryptAllData(o, n)
    \/ \E o \in Keys, n \in Keys : ReEncryptInterrupted(o, n)

SpecReEncrypt == InitReEncrypt /\ [][NextReEncrypt]_vars

-----------------------------------------------------------------------------
(* Specification of the session manager *)

CharacterArgs == Characters \cup {Null}

\* the callers of a session send one request at a time; the timer, logouts and
\* the clock go on while a call stands at an await
NextSession ==
    \/ \E s \in {"s1", ""}, c \in CharacterArgs, k \in SessionKeys :
          GetChatbot(1, s, c, k)
    \/ \E r \in LoadResults : LoadCharacter(1, r)
    \/ ResumeSwitch(1)
    \/ ResumeCreate(1)
    \/ \E ok \in BOOLEAN : FinishCreate(1, ok)
    \/ \E c \in Characters : SetActiveCharacterForSession(1, "s1", c)
    \/ ResumeSetActive(1)
    \/ DeleteSession("s1")
    \/ CleanupInactiveSessions
    \/ Tick
    \/ Chat("s1")

SpecSession == InitChar /\ [][NextSession]_vars

\* requests for one session arrive while another is in flight
NextSessionRace ==
    \/ \E i \in Calls, c \in CharacterArgs, k \in SessionKeys :
          GetChatbot(i, "s1", c, k)
    \/ \E i \in Calls, r \in LoadResults : LoadCharacter(i, r)
    \/ \E i \in Calls : ResumeSwitch(i)
    \/ \E i \in Calls : ResumeCreate(i)
    \/ \E i \in Calls, ok \in BOOLEAN : FinishCreate(i, ok)
    \/ DeleteSession("s1")

SpecSessionRace == InitChar /\ [][NextSessionRace]_vars

\* several sessions, created with the default character, live and end beside
\* a profile directory that holds documents
NextSweep ==
    \/ \E s \in SessionIds : GetChatbot(1, s, Null, NoKey)
    \/ \E r \in LoadResults : LoadCharacter(1, r)
    \/ ResumeCreate(1)
    \/ \E ok \in BOOLEAN : FinishCreate(1, ok)
    \/ \E s \in SessionIds : DeleteSession(s)
    \/ CleanupInactiveSessions
    \/ Tick

SpecSweep == InitPublic /\ [][NextSweep]_vars

\* the characters of all sessions are reloaded while sessions are created
\* and used
NextReload ==
    \/ \E s \in SessionIds : GetChatbot(1, s, Null, NoKey)
    \/ \E r \in LoadResults : LoadCharacter(1, r)
    \/ ResumeCreate(1)
    \/ \E ok \in BOOLEAN : FinishCreate(1, ok)
    \/ \E s \in SessionIds : Chat(s)
    \/ ReloadCharacterForAllSessions
    \/ \E s \in SessionIds, ok \in BOOLEAN : ReloadSettle(s, ok)
    \/ Tick

SpecReload == InitChar /\ [][NextReload]_vars

\* request ids and starters are tracked while a session is created, switched,
\* swept and deleted, and users log out
RequestArgs == RequestIds \cup {Null}

NextTracking ==
    \/ \E c \in CharacterArgs : GetChatbot(1, "s1", c, NoKey)
    \/ \E r \in LoadResults : LoadCharacter(1, r)
    \/ ResumeSwitch(1)
    \/ ResumeCreate(1)
    \/ \E ok \in BOOLEAN : FinishCreate(1, ok)
    \/ DeleteSession("s1")
    \/ CleanupInactiveSessions
    \/ Tick
    \/ \E r \in RequestArgs : TrackRequestId("s1", r)
    \/ \E c \in Characters : NeedsStarter(c)
    \/ \E c \in Characters : MarkStarterShown(c)
    \/ ClearAllStarterTracking
    \/ \E s \in {"s1", ""} : Logout(s)

SpecTracking == InitChar /\ [][NextTracking]_vars

-----------------------------------------------------------------------------
(* Specification of two sessions side by side *)

\* two browsers, each with its session id: the session of the second is
\* created and talked to while the first creates, switches, clears, reloads
\* and deletes its own and the clock runs
NextIsolation ==
    \/ \E c \in {Null, "Astra"} : GetChatbot(1, "s1", c, NoKey)
    \/ GetChatbot(1, "s2", Null, NoKey)
    \/ \E r \in LoadResults : LoadCharacter(1, r)
    \/ ResumeSwitch(1)
    \/ ResumeCreate(1)
    \/ \E ok \in BOOLEAN : FinishCreate(1, ok)
    \/ ClearSession("s1")
    \/ ReloadCharacterForSession("s1")
    \/ \E ok \in BOOLEAN : ReloadSettle("s1", ok)
    \/ DeleteSession("s1")
    \/ Chat("s2")
    \/ Tick

SpecIsolation == InitChar /\ [][NextIsolation]_vars

-----------------------------------------------------------------------------
(* Specification of login and password change over a corpus of documents *)

\* the browser logs in and out, saves private profiles and consent under the
\* key of its session and changes the password; the directory starts empty
NextPassword ==
    \/ \E p \in Passwords : Login(p)
    \/ \E n \in Passwords, c \in Passwords, e \in EnvOutcomes : ChangePassword(n, c, e)
    \/ Logout("")
    \/ /\ reqSession.authenticated
       /\ \E n \in CorpusNames, p \in CorpusPayloads :
             SaveProfile(n, p, reqSession.encryptionKey)
    \/ /\ reqSession.authenticated
       /\ \E c \in ConsentPayloads : SaveConsent(c, reqSession.encryptionKey)

SpecPassword == InitChar /\ [][NextPassword]_vars

-----------------------------------------------------------------------------
(* Properties of re-encryption (SpecReEncrypt) *)

\* the documents a run covers: the private profiles listed, and the user document
RunScope(fs, txt) == {n \in listProfiles(fs, txt) : shouldEncryptProfile(n)} \cup {UserFile}

IsRun(l) == l.op = "reEncryptAllData"

\* the step is a second completed run right after a successful run with the same keys
SecondRun ==
    /\ IsRun(last) /\ last.outcome = "ok"
    /\ IsRun(last') /\ last'.outcome # "crashed"
    /\ last'.old = last.old /\ last'.new = last.new

SecondRunIdle ==
    /\ last'.outcome = "ok"
    /\ last'.skipped = RunScope(files, legacyTxt)
    /\ last'.rewritten = {}
    /\ files' = files

\* C2 as stated: for any oldKey and newKey, a second run in succession finds
\* every document under newKey, rewrites no file and leaves the corpus as the
\* first run left it
C2_RunTwiceAnyKeys == [][SecondRun => SecondRunIdle]_vars

\* C2 amended: the same for oldKey different from newKey
C2_RunTwiceIdempotent == [][SecondRun /\ last'.old # last'.new => SecondRunIdle]_vars

C2_Witness ==
    /\ IsRun(last) /\ last.after = "ok" /\ last.outcome = "ok"
    /\ last.old # last.new
    /\ last.rewritten = {}
    /\ last.skipped = {"Nova", "Astra", UserFile}

\* every document of the scope is there, in an envelope of one of the two keys
MixedCorpus(fs, txt, oldKey, newKey) ==
    \A d \in RunScope(fs, txt) : fs[d] # NoFile /\ fs[d].env \in {oldKey, newKey}

\* C3: a completed run over a corpus that an interrupted run with the same keys
\* left behind (every private character document and the user document under
\* oldKey or newKey) succeeds and leaves each of them under newKey with the
\* content it had
C3_SelfHealing ==
    [][IsRun(last') /\ last'.outcome # "crashed"
       /\ MixedCorpus(files, legacyTxt, last'.old, last'.new)
       => /\ last'.outcome = "ok"
          /\ \A d \in RunScope(files, legacyTxt) :
                files'[d].env = last'.new /\ files'[d].doc = files[d].doc]_vars

C3_Witness ==
    /\ IsRun(last) /\ last.after = "crashed" /\ last.outcome = "ok"
    /\ last.old # last.new
    /\ last.found = {last.old, last.new}
    /\ last.skipped # {} /\ last.rewritten # {}
    /\ \A d \in {"Nova", "Astra", UserFile} : files[d].env = last.new

Undecryptable(c, oldKey, newKey) == c # NoFile /\ c.env \notin {NoKey, oldKey, newKey}

\* C4: a run that meets a document neither key decrypts does not report
\* success; it ends with an error and leaves that document, and every document
\* it had not processed yet, the user document among them, as they were
C4_AbortOnUndecryptable ==
    [][IsRun(last')
       /\ (\E d \in RunScope(files, legacyTxt) :
              Undecryptable(files[d], last'.old, last'.new))
       => /\ last'.outcome # "ok"
          /\ \A d \in RunScope(files, legacyTxt) :
                Undecryptable(files[d], last'.old, last'.new)
                => d \notin last'.rewritten /\ files'[d] = files[d]
          /\ last'.outcome = "error"
             => /\ last'.failed # {}
                /\ UserFile \in last'.failed \cup last'.pending
                /\ \A d \in last'.failed \cup last'.pending : files'[d] = files[d]]_vars

C4_Witness ==
    /\ IsRun(last) /\ last.outcome = "error"
    /\ last.failed = {"Astra"} /\ files["Astra"] # NoFile
    /\ Undecryptable(files["Astra"], last.old, last.new)
    /\ last.rewritten = {"Nova"}
    /\ last.pending = {UserFile}

\* C37: a run that is left to finish completes successfully whenever every
\* canonical .json document that exists can be read with oldKey or newKey, a
\* private profile that exists as a legacy .txt only and a user document that
\* does not exist yet included
C37_CompletesWhenReadable ==
    [][IsRun(last') /\ last'.outcome # "crashed"
       /\ (\A d \in RunScope(files, legacyTxt) :
              ~Undecryptable(files[d], last'.old, last'.new))
       => last'.outcome = "ok"]_vars

-----------------------------------------------------------------------------
(* Properties of the public profiles (SpecPublic) *)

\* C5: the stored document of a public profile is plain JSON, never an
\* envelope, and getProfile returns it with any key and with none
C5_PublicAlwaysPlain ==
    \A n \in PUBLIC_PROFILES \cap ProfileNames :
        files[n] # NoFile
        => /\ files[n].env = NoKey
           /\ \A k \in CallKeys :
                 getProfile(files, legacyTxt, n, k) = [ok |-> TRUE, data |-> files[n].doc]

C5_Witness ==
    /\ IsRun(last) /\ last.outcome = "ok" /\ "Nova" \in last.rewritten
    /\ files["Echo"] # NoFile
    /\ favoritesOf(files["Echo"].doc) = <<"f1", "g1">>

-----------------------------------------------------------------------------
(* Properties of saveProfile on a private profile (SpecChar) *)

IsSave(l) == l.op = "saveProfile"

\* the favorites list a stored file holds, whatever it is wrapped in
storedFavorites(c) ==
    IF c # NoFile /\ isCharacterV2(c.doc) THEN favoritesOf(c.doc) ELSE <<>>

\* whether the payload of a save says anything about favorites
carriesFavorites(p) ==
    IF isCharacterV2(p) THEN Has(p.character, "favorites") ELSE Has(p, "favorites")

\* a form field the caller filled in
Supplied(p, f) == Has(p, f) /\ p[f] # ""

\* the returned document carries the payload: a full document as it is, a flat
\* object field by field (age is posted as a string and kept as a number)
carriesPayload(data, p) ==
    IF isCharacterV2(p) THEN data = p
    ELSE /\ isCharacterV2(data)
         /\ Supplied(p, "gender") => data.character.gender = p.gender
         /\ Supplied(p, "age") => (p.age = "30" /\ data.character.age = 30)
         /\ Has(p, "notifications") => data.character.notifications = p.notifications
         /\ Has(p, "favorites") => favoritesOf(data) = p.favorites

\* C6: saveProfile(name, payload, key) then getProfile(name, key) on a private
\* name returns a document carrying every field of the payload, and the
\* favorites stored before the save when the payload has none
C6_SaveThenGetRoundTrip ==
    [][IsSave(last') /\ shouldEncryptProfile(last'.name) /\ last'.key # NoKey
       => LET r == getProfile(files', legacyTxt', last'.name, last'.key) IN
          /\ r.ok
          /\ carriesPayload(r.data, last'.payload)
          /\ ~carriesFavorites(last'.payload)
             => favoritesOf(r.data) = storedFavorites(files[last'.name])]_vars

\* C7: a save of an existing character document whose payload has no favorites
\* leaves the stored favorites list as it was, whatever key is passed
C7_FavoritesSurvive ==
    [][IsSave(last') /\ files[last'.name] # NoFile /\ ~carriesFavorites(last'.payload)
       => storedFavorites(files'[last'.name]) = storedFavorites(files[last'.name])]_vars

CharacterFields == {"gender", "age", "notifications", "favorites"}

\* the stored value of a character field, as a sequence of at most one value
storedField(c, f) ==
    IF Has(c.doc.character, f) THEN <<c.doc.character[f]>> ELSE <<>>

\* C8: a save with a flat partial payload, on a stored document the key passed
\* reads, changes only the character fields the payload has; every other field
\* of the stored document keeps its value
C8_MergeOnSave ==
    [][IsSave(last') /\ ~isCharacterV2(last'.payload)
       /\ readJSON(files, last'.name, last'.key).ok
       => \A f \in CharacterFields \ DOMAIN last'.payload :
             storedField(files'[last'.name], f) = storedField(files[last'.name], f)]_vars

\* the document is stored as an envelope / in the clear
StoredEncrypted(c) == c # NoFile /\ isEncrypted(c)
StoredPlain(c) == c # NoFile /\ ~isEncrypted(c)

\* C39: a private character document that is stored as an encrypted envelope
\* is not stored in plaintext after a saveProfile, addFavorite,
\* removeFavorite or reEncryptAllData call, whatever key the call is given
C39_EncryptedStaysEncrypted ==
    [][last'.op \in {"saveProfile", "addFavorite", "removeFavorite", "reEncryptAllData"}
       => \A n \in ProfileNames :
             shouldEncryptProfile(n) /\ StoredEncrypted(files[n])
             => ~StoredPlain(files'[n])]_vars

-----------------------------------------------------------------------------
(* Properties of the favorites list (SpecChar) *)

\* the step is removeFavorite with the id the addFavorite right before returned
RemoveOfAdded ==
    /\ last.op = "addFavorite" /\ last.outcome = "ok"
    /\ last'.op = "removeFavorite"
    /\ last'.name = last.name /\ last'.key = last.key /\ last'.id = last.id

\* C11: addFavorite followed by removeFavorite with the returned id leaves the
\* favorites list with the entries it had before the add
C11_AddThenRemove ==
    [][RemoveOfAdded
       => /\ last'.outcome = "ok"
          /\ storedFavorites(files'[last'.name]) = last.before]_vars

\* the id is not in the list of a document the call can read
UnknownId(fs, name, id, key) ==
    LET rd == readJSON(fs, name, IF shouldEncryptProfile(name) THEN key ELSE NoKey) IN
    rd.ok /\ isCharacterV2(rd.data) /\ id \notin Range(favoritesOf(rd.data))

\* C12: removeFavorite with an id that is not in the list ends with the
\* not-found error and writes nothing
C12_RemoveUnknown ==
    [][last'.op = "removeFavorite" /\ UnknownId(files, last'.name, last'.id, last'.key)
       => /\ last'.outcome = "error" /\ last'.err = "favorite not found"
          /\ files' = files]_vars

C12_Witness ==
    /\ last.op = "removeFavorite" /\ last.err = "favorite not found"
    /\ last.id = "g1" /\ last.key # NoKey
    /\ files[last.name].env = last.key
    /\ favoritesOf(files[last.name].doc) = <<"f1">>

\* the canonical document of a name as getProfile can use it with a key: a
\* version 2.0 character document in clear, or encrypted under the key if the
\* name is private
Canonical(c, profileName, encryptionKey) ==
    /\ c # NoFile
    /\ \/ c.env = NoKey
       \/ /\ profileName \notin PUBLIC_PROFILES
          /\ encryptionKey # NoKey /\ c.env = encryptionKey
    /\ Has(c.doc, "version") /\ c.doc.version = "2.0"
    /\ Has(c.doc, "type") /\ c.doc.type = "character"

C29_DeleteAllForms ==
    [][last'.op = "deleteProfile"
       => LET n == last'.name IN
          /\ last'.outcome = "ok"
          /\ files'[n] = NoFile
          /\ n \notin legacyTxt' /\ AvatarTxt(n) \notin legacyTxt'
          /\ n \notin listProfiles(files', legacyTxt')
          /\ \A k \in Keys \cup {NoKey} : ~getProfile(files', legacyTxt', n, k).ok
          /\ \A f \in FileNames \ {n} : files'[f] = files[f]
          /\ legacyTxt' \ {n, AvatarTxt(n)} = legacyTxt \ {n, AvatarTxt(n)}
          /\ last'.found = {} => files' = files /\ legacyTxt' = legacyTxt]_vars

C29_Witness ==
    /\ last.op = "deleteProfile" /\ last.name = "Nova"
    /\ last.found = {"json", "txt", "avatar"}
    /\ listProfiles(files, legacyTxt) = {"Echo"}

\* C30: saveConsent stores the user document in clear without a key and
\* encrypted under the key with one, whatever the document was before, and a
\* getConsent with the same key right after it returns the consent saved
C30_ConsentRoundTrip ==
    [][/\ last'.op = "saveConsent"
          => /\ last'.outcome = "ok"
             /\ files'[UserFile] # NoFile
             /\ files'[UserFile].env = last'.key
             /\ files'[UserFile].doc.consent = last'.consent
       /\ (last'.op = "getConsent" /\ last.op = "saveConsent" /\ last.key = last'.key)
          => last'.ret = last.consent]_vars

\* the consent of a document written in clear is replaced in a call with a
\* key, and read back with that key
C30_Witness ==
    /\ last.op = "getConsent" /\ last.key = "k1" /\ last.ret = "withdrawn"
    /\ files[UserFile] # NoFile /\ files[UserFile].env = "k1"
    /\ files[UserFile].doc.consent = "withdrawn"
    /\ Has(defaultUserData, "consent") /\ defaultUserData.consent = "accepted"

\* C13: the ids of the entries of a favorites list are pairwise distinct
C13_DistinctIds ==
    \A n \in ProfileNames :
        LET favs == storedFavorites(files[n]) IN
        \A i, j \in DOMAIN favs : favs[i] = favs[j] => i = j

-----------------------------------------------------------------------------
(* Properties of the session manager (SpecSession, SpecSessionRace, SpecSweep) *)

\* the step is a getChatbot call returning the agent
Returns == last'.op = "getChatbot" /\ last'.outcome = "ok"

\* what C14 says of a returning call that switched the character
SwitchDone ==
    /\ last'.char # last'.current
    /\ last'.agent = last'.found
    /\ last'.sid \in DOMAIN sessions' => sessions'[last'.sid] = last'.agent
    /\ getActiveCharacterName(last'.state) = last'.char
    /\ last'.state.history = 0
    /\ last'.state.cachedCharacter = Null
    /\ sessionCharacters'[last'.sid] = last'.char

C15_SameCharacterNoChange ==
    [][Returns /\ ~last'.created
       /\ (last'.char = Null \/ last'.char = last'.current)
       => /\ last'.agent = last'.found
          /\ last'.state.history = last'.hadHistory
          /\ sessionCharacters' = sessionCharacters
          /\ sessions' = sessions]_vars

C15_Witness ==
    /\ last.op = "getChatbot" /\ last.outcome = "ok" /\ ~last.created
    /\ last.char = Null /\ last.current = "Astra"
    /\ last.hadHistory > 0 /\ last.state.history = last.hadHistory
    /\ sessions["s1"] = last.agent /\ sessionCharacters["s1"] = "Astra"

\* C16: the calls for a session that return while it is registered all return
\* the same agent instance
C16_OneAgentPerSession ==
    \A s \in SessionIds : Cardinality(issued[s]) <= 1

\* C17: a creating call whose character load fails, no other call for the
\* session overlapping it, ends with the error and leaves no entry for the
\* session id in any map
C17_NoPartialSession ==
    [][last'.op = "getChatbot" /\ last'.outcome = "error" /\ last'.err = "load"
       /\ last'.created /\ ~last'.overlapped
       => /\ last'.sid \notin DOMAIN sessions'
          /\ last'.sid \notin DOMAIN sessionCharacters'
          /\ last'.sid \notin DOMAIN lastActivity']_vars

\* C18: the sweep removes every session whose recorded activity is older than
\* the timeout; a call for an id that has no session constructs an agent, and
\* the agent it returns is none the sweep removed and has an empty history
C18_SweptThenFresh ==
    [][/\ last'.op = "cleanupInactiveSessions"
          => \A s \in DOMAIN sessions \cap DOMAIN lastActivity :
                now - lastActivity[s] > sessionTimeout
                => s \notin DOMAIN sessions' /\ s \in last'.removed
       /\ (last'.op = "getChatbot.await" /\ last'.sid \notin DOMAIN sessions)
          => last'.created /\ agentCount' \notin reaped /\ agentCount' \notin DOMAIN agents
       /\ (Returns /\ last'.created)
          => /\ last'.agent \notin reaped'
             /\ last'.state.history = 0]_vars

C18_Witness ==
    /\ last.op = "getChatbot" /\ last.outcome = "ok" /\ last.created
    /\ reaped = {1}
    /\ sessions["s1"] = 2 /\ last.agent = 2
    /\ agents[2].history = 0

\* C21: the reload of a session that is fulfilled clears the history of its
\* agent and refreshes its activity timestamp, whether or not the reload of
\* another session was rejected before; a rejected reload leaves the reloads
\* of the other sessions pending; and when no reload is pending any more,
\* every session the call went over was either reloaded or rejected itself
C21_ReloadIndependent ==
    [][/\ (last'.op = "reloadCharacter" /\ last'.ok)
          => /\ last'.state.history = 0
             /\ lastActivity'[last'.sid] = now
             /\ last'.sid \in reloading'.done
       /\ (last'.op = "reloadCharacter" /\ ~last'.ok)
          => /\ DOMAIN reloading'.pending = DOMAIN reloading.pending \ {last'.sid}
             /\ reloading'.done = reloading.done
       /\ reloading'.pending = EmptyObj
          => reloading'.done \cup reloading'.failed = reloading'.snapshot]_vars

\* the reload of a session with a history is fulfilled after the reload of
\* the other session was rejected
C21_Witness ==
    /\ last.op = "reloadCharacter" /\ last.ok /\ last.sid = "s2"
    /\ last.hadHistory > 0 /\ last.state.history = 0
    /\ reloading.failed = {"s1"} /\ reloading.done = {"s2"}
    /\ reloading.returned = "rejected"
    /\ now > 0 /\ lastActivity["s2"] = now

\* C22: no getChatbot call returns the agent of a session while another call
\* for the session stands between its load and its update of the maps, that
\* is while the loader holds the new character and the recorded character is
\* still the old one or the old history is still there
C22_NoHalfSwitch ==
    [][Returns
       => ~ \E i \in Calls :
               /\ calls'[i] # Idle /\ calls'[i].pc = "switched"
               /\ calls'[i].sid = last'.sid /\ calls'[i].agent = last'.agent
               /\ getActiveCharacterName(agents'[last'.agent]) = calls'[i].char
               /\ \/ MapGet(sessionCharacters', last'.sid) # calls'[i].char
                  \/ agents'[last'.agent].history > 0]_vars

\* a call whose load ended with the loader on another character than the one
\* it asked for
Mismatched(i) ==
    /\ calls[i] # Idle /\ calls[i].pc \in {"switched", "loaded"}
    /\ calls[i].char # Null
    /\ getActiveCharacterName(agents[calls[i].agent]) # calls[i].char

\* C23: a call whose load ended on another character than the one asked for
\* goes on as any other: the switching call returns the session's agent,
\* the creating call goes on to initialize, and when it returns the agent
\* the session is registered with that agent
C23_MismatchNotFatal ==
    [][/\ \A i \in Calls :
            Mismatched(i) /\ calls'[i] # calls[i]
            => \/ /\ calls[i].pc = "switched"
                  /\ Returns /\ last'.switched /\ last'.agent = calls[i].agent
               \/ /\ calls[i].pc = "loaded"
                  /\ calls'[i] # Idle /\ calls'[i].pc = "init"
       /\ (Returns /\ last'.created /\ last'.char # Null /\ last'.loaded # last'.char)
          => /\ last'.sid \in DOMAIN sessions'
             /\ sessions'[last'.sid] = last'.agent]_vars

C23_Witness ==
    /\ last.op = "getChatbot" /\ last.outcome = "ok" /\ last.created
    /\ last.char = "Astra" /\ last.loaded = "Nova"
    /\ "s1" \in DOMAIN sessions /\ sessions["s1"] = last.agent
    /\ getActiveCharacterName(agents[last.agent]) = "Nova"

C25_StarterTracking ==
    [][/\ last'.op = "needsStarter"
          => last'.ret = (last'.char \notin charactersWithStarters)
       /\ last'.op = "markStarterShown"
          => /\ charactersWithStarters' = charactersWithStarters \cup {last'.char}
             /\ ~needsStarter(charactersWithStarters', last'.char)
       /\ last'.op = "clearAllStarterTracking"
          => \A c \in Characters : needsStarter(charactersWithStarters', c)
       /\ last'.op \notin {"markStarterShown", "clearAllStarterTracking", "logout"}
          => charactersWithStarters' = charactersWithStarters]_vars

\* the session is swept while the starter of a character stays shown
C25_Witness ==
    /\ last.op = "cleanupInactiveSessions" /\ last.removed = {"s1"}
    /\ charactersWithStarters = {"Nova"}
    /\ ~needsStarter(charactersWithStarters, "Nova")
    /\ needsStarter(charactersWithStarters, "Astra")

\* C26: after a logout every character needs its starter again
C26_LogoutClearsStarters ==
    [][last'.op = "logout"
       => \A c \in Characters : needsStarter(charactersWithStarters', c)]_vars

\* C27: a creating call hands the key to the loader before it starts the
\* load; while the load is awaited the agent has no character, while
\* initialize is awaited it has one and is not initialized, and in neither
\* case is it in the registry; an agent enters the registry only when the
\* creating call returns it, initialized and with a character; so every
\* agent in the registry has a character loaded
C27_CreationOrder ==
    [][/\ (last'.op = "getChatbot.await" /\ last'.created)
          => /\ agents'[agentCount'].key = last'.key
             /\ \E i \in Calls : calls'[i] # Idle /\ calls'[i].agent = agentCount'
       /\ \A i \in Calls :
             (calls'[i] # Idle /\ calls'[i].pc \in {"create", "loaded", "init"})
             => LET a == calls'[i].agent IN
                /\ \A s \in DOMAIN sessions' : sessions'[s] # a
                /\ ~agents'[a].initialized
                /\ getActiveCharacterName(agents'[a]) = Null <=> calls'[i].pc = "create"
       /\ \A s \in DOMAIN sessions' :
             /\ (s \notin DOMAIN sessions \/ sessions'[s] # sessions[s])
                => /\ Returns /\ last'.created /\ last'.sid = s
                   /\ last'.agent = sessions'[s]
                   /\ last'.state.initialized
             /\ agents'[sessions'[s]].initialized
             /\ getActiveCharacterName(agents'[sessions'[s]]) # Null]_vars

C27_Witness ==
    /\ last.op = "getChatbot" /\ last.outcome = "ok" /\ last.created
    /\ sessions["s1"] = last.agent
    /\ agents[last.agent].key = "k1"
    /\ agents[last.agent].initialized
    /\ getActiveCharacterName(agents[last.agent]) = "Astra"

\* C19: a session leaves the registry only in a deleteSession for its id or
\* in a sweep at a time when its idle time exceeds the timeout
C19_OnlyLogoutOrIdle ==
    [][\A s \in DOMAIN sessions \ DOMAIN sessions' :
          \/ last'.op = "deleteSession" /\ last'.sid = s
          \/ /\ last'.op = "cleanupInactiveSessions"
             /\ s \in DOMAIN lastActivity
             /\ now - lastActivity[s] > sessionTimeout]_vars

\* a sweep that removed one session and kept one idle for exactly the timeout
C19_Witness ==
    /\ last.op = "cleanupInactiveSessions"
    /\ last.removed = {"s2"}
    /\ "s1" \in DOMAIN sessions /\ "s2" \notin DOMAIN sessions
    /\ now - lastActivity["s1"] = sessionTimeout

\* C20: deleteSession raises no error and changes no document; for a
\* registered id it removes the agent and the activity timestamp of that id
\* and nothing else, for any other id it changes nothing
C20_DeleteIdempotent ==
    [][last'.op = "deleteSession"
       => /\ last'.outcome = "ok"
          /\ files' = files /\ legacyTxt' = legacyTxt
          /\ last'.sid \notin DOMAIN sessions'
          /\ IF last'.sid \in DOMAIN sessions
             THEN /\ sessions' = MapDelete(sessions, last'.sid)
                  /\ lastActivity' = MapDelete(lastActivity, last'.sid)
             ELSE sessions' = sessions /\ lastActivity' = lastActivity
          /\ UNCHANGED <<sessionCharacters, calls>>]_vars

C20_Witness ==
    /\ last.op = "deleteSession" /\ last.sid = "s1"
    /\ "s1" \in DOMAIN sessionCharacters
    /\ "s1" \notin DOMAIN sessions /\ "s1" \notin DOMAIN lastActivity
    /\ "s2" \in DOMAIN sessions /\ "s2" \in DOMAIN lastActivity
    /\ files["Nova"] # NoFile

-----------------------------------------------------------------------------
(* Properties of the user document (SpecUser) *)

\* user-profile.json is there and cannot be read as a document with this key
Unreadable(fs, key) == fs[UserFile] # NoFile /\ ~readJSON(fs, UserFile, key).ok

\* C1: saveUserSettings on a user-profile.json that exists but cannot be read
\* fails with an error and leaves the file as it was
C1_RefuseOverwrite ==
    [][last'.op = "saveUserSettings" /\ Unreadable(files, last'.key)
       => last'.outcome = "error" /\ files'[UserFile] = files[UserFile]]_vars

SettingsFlags == {"enableMemory", "enableWebSearch", "webSearchApiKey",
                  "defaultActiveCharacter"}

storedSetting(c, f) ==
    IF Has(settingsOf(c.doc), f) THEN <<settingsOf(c.doc)[f]>> ELSE <<>>

storedConsent(c) == IF Has(c.doc, "consent") THEN <<c.doc.consent>> ELSE <<>>

\* C9: saveUserSettings, on a stored document the key passed reads, leaves the
\* stored value of every settings flag the update omits, and the stored consent,
\* as they were
C9_SettingsMerge ==
    [][last'.op = "saveUserSettings" /\ readJSON(files, UserFile, last'.key).ok
       => /\ \A f \in SettingsFlags \ DOMAIN last'.settings :
                storedSetting(files'[UserFile], f) = storedSetting(files[UserFile], f)
          /\ storedConsent(files'[UserFile]) = storedConsent(files[UserFile])]_vars

\* every field the old document stored, but those in except, is in the new one
keepsFields(old, new, except) ==
    /\ old.user = new.user
    /\ \A f \in DOMAIN settingsOf(old) \ except :
          Has(settingsOf(new), f) /\ settingsOf(new)[f] = settingsOf(old)[f]
    /\ (Has(old, "consent") /\ "consent" \notin except)
       => (Has(new, "consent") /\ new.consent = old.consent)

\* C10: saveConsent and setActiveProfile on a user-profile.json that exists but
\* cannot be read with the key passed leave every stored field recoverable with
\* the key the document was stored under
C10_NoDefaultOverwrite ==
    [][last'.op \in {"saveConsent", "setActiveProfile"} /\ Unreadable(files, last'.key)
       => LET rd == readJSON(files', UserFile, files[UserFile].env) IN
          /\ rd.ok
          /\ keepsFields(files[UserFile].doc, rd.data,
                         IF last'.op = "saveConsent" THEN {"consent"}
                         ELSE {"defaultActiveCharacter"})]_vars


-----------------------------------------------------------------------------
(* Properties of the password change (SpecPassword) *)

\* the request of the step: its fields and the session it came with
BadChangeRequest(rec) ==
    \/ ~rec.session.authenticated
    \/ rec.new = "" \/ rec.confirm = ""
    \/ rec.new # rec.confirm
    \/ passwordLength(rec.new) < 12
    \/ rec.session.encryptionKey = NoKey

\* C31: a change-password request that is unauthenticated, lacks a password
\* field, has passwords that differ, has a new password of fewer than 12
\* characters or comes with a session without key changes no document, not
\* the stored password hash and not the key of the session
C31_RejectedBeforeStorage ==
    [][last'.op = "changePassword" /\ BadChangeRequest(last')
       => /\ last'.status \in {400, 401}
          /\ files' = files
          /\ appPasswordHash' = appPasswordHash
          /\ envFile' = envFile
          /\ reqSession' = reqSession]_vars

\* a logged-in request with a short password is refused while documents exist
C31_Witness ==
    /\ last.op = "changePassword" /\ last.reason = "short" /\ last.status = 400
    /\ last.session.authenticated
    /\ files["Nova"] # NoFile /\ files[UserFile] # NoFile


\* the passwords login accepts, and the documents a password opens
Accepted == {p \in Passwords \ {""} : bcryptCompare(p, appPasswordHash)}
Opens(p, f) == files[f] = NoFile \/ readFileContent(files, f, p).err = "none"

\* C33: when a change-password request has finished, with whatever outcome,
\* every password that login accepts decrypts every private character
\* document and the user document
C33_HashAndKeyAgree ==
    [][last'.op = "changePassword"
       => \A p \in Accepted' :
             \A f \in CorpusNames \cup {UserFile} : Opens(p, f)']_vars

-----------------------------------------------------------------------------
(* Properties of sessions side by side (SpecIsolation) *)

\* the steps of getChatbot (a character switch included), clearSession,
\* reloadCharacterForSession and deleteSession; each is a step for last.sid
SessionOps ==
    {"getChatbot", "getChatbot.await", "loadCharacterAsync", "getChatbot.initialize",
     "clearSession", "reloadCharacterForSession", "reloadCharacter", "deleteSession"}

\* C32: a step of getChatbot, of a character switch, of clearSession, of
\* reloadCharacterForSession or of deleteSession for session id A leaves, for
\* every other session id B, the agent instance, the conversation history,
\* the recorded character and the activity timestamp as they were
C32_SessionIsolation ==
    [][last'.op \in SessionOps
       => \A B \in SessionIds \ {last'.sid} :
             /\ (B \in DOMAIN sessions') = (B \in DOMAIN sessions)
             /\ B \in DOMAIN sessions
                  => /\ sessions'[B] = sessions[B]
                     /\ agents'[sessions[B]].history = agents[sessions[B]].history
             /\ (B \in DOMAIN sessionCharacters') = (B \in DOMAIN sessionCharacters)
             /\ B \in DOMAIN sessionCharacters
                  => sessionCharacters'[B] = sessionCharacters[B]
             /\ (B \in DOMAIN lastActivity') = (B \in DOMAIN lastActivity)
             /\ B \in DOMAIN lastActivity
                  => lastActivity'[B] = lastActivity[B]]_vars

\* the first session is cleared while the second, last active earlier, holds
\* a conversation
C32_Witness ==
    /\ last.op = "clearSession" /\ last.sid = "s1" /\ last.found
    /\ "s2" \in DOMAIN sessions /\ agents[sessions["s2"]].history = 1
    /\ lastActivity["s2"] < now /\ lastActivity["s1"] = now
    /\ sessionCharacters["s2"] # sessionCharacters["s1"]


-----------------------------------------------------------------------------
(* Properties of the registry maps (SpecSessionRace, SpecSession) *)

\* C34: every session id in sessions has an entry in lastActivity, which is
\* what lets the idle sweep find the session
C34_RegisteredHasActivity == DOMAIN sessions \subseteq DOMAIN lastActivity

\* no getChatbot, setActiveCharacterForSession or reload is between its awaits
Quiescent == (\A i \in Calls : calls[i] = Idle) /\ reloading.pending = EmptyObj

\* C35: whenever no session-manager call is in flight, sessions,
\* sessionCharacters and lastActivity have entries for the same session ids
\* and latestRequestIds has entries for such ids only
C35_MapsAgree ==
    Quiescent
    => /\ DOMAIN sessionCharacters = DOMAIN sessions
       /\ DOMAIN lastActivity = DOMAIN sessions
       /\ DOMAIN latestRequestIds \subseteq DOMAIN sessions

\* C36: for every registered session with no call in flight, the recorded
\* character is the one the loader of the session's agent reports as active
C36_RecordedIsActive ==
    \A s \in DOMAIN sessions :
        InFlight(s) = {} /\ s \notin DOMAIN reloading.pending
        => /\ s \in DOMAIN sessionCharacters
           /\ sessionCharacters[s] = getActiveCharacterName(agents[sessions[s]])


-----------------------------------------------------------------------------
(* Properties of the built-in defaults (SpecUser) *)

\* C38: the built-in default user document is never modified; every call
\* that creates a user document from it finds it as the module defined it
C38_DefaultsUntouched == defaultUserData = DEFAULT_USER_DATA

====
